---- MODULE Spec2Model ----
(***************************************************************************)
(* Resumable transfer engine of R2-Bucket-Manager                          *)
(* (src/src/large_file_handler.rs, LargeFileHandler::upload_large_file).   *)
(*                                                                         *)
(* One target key is transferred.  The state is the local disk (the        *)
(* persisted session record and the staged encrypted files), the remote    *)
(* multipart uploads, and the in-memory state of the running invocation.   *)
(* The environment may crash the process between any two steps, may make   *)
(* a network call fail, and may modify or delete a staged file.            *)
(*                                                                         *)
(* Other components are studied on their own, each under a specification   *)
(* of its own: retry_operation (RetrySpec), get_session_path (PathSpec),   *)
(* ChunkedDownloader::download_file of src/src/multipart_upload.rs         *)
(* (DownloadSpec); of R2Client in src/src/r2_client.rs the status          *)
(* handling (ClientSpec), the parsing of a listing (ListSpec),             *)
(* sign_request (SignSpec) and the paths built for object keys             *)
(* (ObjectSpec); of PgpHandler in src/src/crypto.rs the keys and the calls  *)
(* (PgpSpec) and decrypt_with_gpg (GpgSpec);                               *)
(* MultipartUploader::calculate_part_size (PartSpec); and the staging      *)
(* paths of create_new_session (StagingSpec).                              *)
(***************************************************************************)
EXTENDS Integers, Sequences, FiniteSets, TLC

\* ---------------------------------------------------------------- bounds
MaxPlainLen == 4        \* length of the longest source file, in bytes
MaxInvocations == 2     \* calls of upload_large_file in one behaviour
MaxCrashes == 2         \* process crashes / task aborts in one behaviour
MaxTampers == 1         \* external modifications of a staged file
CHUNK_SIZE == 2         \* upload chunk size in bytes, scaled down
MaxKeyLen == 2          \* length of the longest object key, in characters
MaxObjectLen == 3       \* length of the longest remote object, in bytes
DownloadChunk == 2      \* chunk size of a ChunkedDownloader, in bytes
MaxListed == 2          \* objects in one listing response
MaxBlocks == 2          \* armored blocks in one piece of key data
MaxCalls == 2           \* key-loading and clearing calls on one PgpHandler
MaxOffset == 2          \* bytes around each file size for which a part size is asked

\* ---------------------------------------------------------------- constants
MAX_RETRIES == 10
INITIAL_RETRY_DELAY == 1000
MAX_RETRY_DELAY == 60000
EXPONENTIAL_BASE == 2
MAX_PARTS == 10000

\* ---------------------------------------------------------------- data
Files == {"a.bin", "b.bin", "huge.bin"}

\* encrypt_large_file, line 191: sources above 100 * 1024^3 bytes are not
\* encrypted in memory; scaled down, and above the sources that are uploaded
IN_MEMORY_LIMIT == MaxPlainLen + 5

PlainLen(f) == IF f = "a.bin" THEN MaxPlainLen - 1
               ELSE IF f = "b.bin" THEN MaxPlainLen
               ELSE IN_MEMORY_LIMIT + 1

\* get_available_disk_space: free bytes under the staging directory (the
\* source returns a fixed 1 TB and leaves the platform call for later): too
\* little for any source, enough but for the overhead of the largest one,
\* and ample
DiskSpaces == {1, PlainLen("huge.bin"), 2 * PlainLen("huge.bin")}

\* a plausible slip: the estimated overhead is left out
required_space_exact(input_size) == input_size

\* (input_size as f64 * 1.1) as u64
required_space(input_size) == (input_size * 11) \div 10

\* a plausible slip: every source is encrypted in memory
over_limit_never(input_size) == FALSE

\* input_size > 100 * 1024 * 1024 * 1024
over_limit(input_size) == input_size > IN_MEMORY_LIMIT

\* the bytes of source file f
Content(f) == [i \in 1..PlainLen(f) |-> i]

\* a path that holds no file
Missing == <<-1>>

NoSession == [absent |-> TRUE]

\* pgp_handler.encrypt: the ciphertext depends on the randomness drawn for
\* the message and is longer than the plaintext
encrypt(plaintext, nonce) == <<nonce>> \o plaintext

\* hex::encode(Sha256::digest(..)), taken as injective
Sha256(bytes) == <<"sha256", bytes>>

\* a plausible slip: the read buffer is hashed without the bytes read into
\* it, so that the digest only depends on the length of the file
calculate_file_checksum_len(bytes) == Sha256([i \in 1..Len(bytes) |-> 0])

\* calculate_file_checksum: SHA-256 over the whole file
calculate_file_checksum(bytes) == Sha256(bytes)

Min(a, b) == IF a < b THEN a ELSE b

\* a plausible slip: integer division, which drops a short last chunk
total_chunks_floor(file_size, chunk_size) == file_size \div chunk_size

\* ((file_size as f64) / (chunk_size as f64)).ceil() as u32
total_chunks_of(file_size, chunk_size) ==
    (file_size \div chunk_size) + (IF file_size % chunk_size = 0 THEN 0 ELSE 1)

\* temp_dir.join(format!("{}.pgp", file_name)): one staging path per source
\* file name, written here as the source file name itself
staging_path(f) == f

create_new_session(f) ==
    [ original_file       |-> f,
      encrypted_file      |-> staging_path(f),
      r2_key              |-> "key",
      upload_id           |-> 0,
      total_size          |-> PlainLen(f),
      chunk_size          |-> CHUNK_SIZE,
      completed_parts     |-> <<>>,
      encryption_complete |-> FALSE,
      encryption_checksum |-> <<>> ]

\* ---------------------------------------------------------------- state
VARIABLES
    pc,            \* position of the running invocation
    file_path,     \* the source file given to the running invocation
    session,       \* the in-memory UploadSession
    disk,          \* the session file of the key (NoSession: no file)
    staged,        \* contents of each staging path (Missing: no file)
    fh,            \* bytes readable through the open staged file handle
    chunk_num,     \* loop variable of the upload loop
    buffer,        \* bytes in memory: ciphertext to write / chunk to upload
    retry_count,   \* retry_operation's counter
    error,         \* the error an invocation returned ("" while none)
    remote_parts,  \* remote side: upload id |-> [part number -> bytes]
    remote_done,   \* remote side: upload ids whose completion succeeded
    resumed,       \* history: this invocation loaded its session from disk
    start_parts,   \* history: parts in the session when it was loaded
    calls,         \* history: network units issued by this invocation
    dirty,         \* history: staging paths modified by someone else
    invocations, crashes, tampers,
    available_space, \* what get_available_disk_space returns to this invocation
    after_part_failure, \* history: the previous invocation gave up on a part
    rop,           \* a stand-alone run of retry_operation
    sp,            \* two object keys and their session paths
    dl,            \* a run of ChunkedDownloader::download_file
    http,          \* one request of the store client and its response
    xml,           \* a listing response body and the keys parsed from it
    sig,           \* two calls of sign_request and their results
    req,           \* an object key and the request built for it
    kh,            \* a PgpHandler and the calls made on it
    tmp,           \* a run of decrypt_with_gpg and the temporary files
    psz,           \* a file size and the part size calculated for it
    stg            \* two calls of create_new_session and their sessions

\* the components that are studied on their own
unit_vars == << rop, sp, dl, http, xml, sig, req, kh, tmp, psz, stg >>

vars == << pc, file_path, session, disk, staged, fh, chunk_num, buffer,
           retry_count, error, remote_parts, remote_done,
           resumed, start_parts, calls, dirty, invocations, crashes, tampers,
           available_space, after_part_failure, unit_vars >>

disk_vars == << disk, staged >>
remote_vars == << remote_parts, remote_done >>
hist_vars == << resumed, start_parts, dirty, invocations, crashes, tampers,
               available_space, after_part_failure, unit_vars >>

\* the transfer engine: everything but the stand-alone components
transfer_vars == << pc, file_path, session, disk, staged, fh, chunk_num,
                    buffer, retry_count, error, remote_parts, remote_done,
                    resumed, start_parts, calls, dirty, invocations, crashes,
                    tampers, available_space, after_part_failure >>

Closed == <<-2>>

\* a component that is not exercised
Idle == [pc |-> "idle"]

TransferInit ==
    /\ pc = "idle"
    /\ file_path = "a.bin"
    /\ session = NoSession
    /\ disk = NoSession
    /\ staged = [f \in Files |-> Missing]
    /\ fh = Closed
    /\ chunk_num = 0
    /\ buffer = <<>>
    /\ retry_count = 0
    /\ error = ""
    /\ remote_parts = <<>>
    /\ remote_done = {}
    /\ resumed = FALSE
    /\ start_parts = 0
    /\ calls = <<>>
    /\ dirty = {}
    /\ invocations = 0
    /\ crashes = 0
    /\ tampers = 0
    /\ available_space = 0
    /\ after_part_failure = FALSE

\* ---------------------------------------------------------------- helpers
Running == pc \notin {"idle", "done", "failed"}

\* the in-memory state of an invocation is dropped when it returns or dies
DropMemory ==
    /\ session' = NoSession
    /\ fh' = Closed
    /\ chunk_num' = 0
    /\ buffer' = <<>>
    /\ retry_count' = 0

\* return Err(msg) from upload_large_file
Fail(msg) ==
    /\ pc' = "failed"
    /\ error' = msg
    /\ DropMemory

\* record a network unit in the history, once per unit
Issue(unit) ==
    calls' = IF calls # <<>> /\ calls[Len(calls)] = unit
             THEN calls ELSE Append(calls, unit)

\* std::fs::write(session_file, json)
save_session(s) == disk' = s

\* a plausible slip: the completed parts are not restored from the file
load_session_without_parts == [disk EXCEPT !.completed_parts = <<>>]

\* serde_json::from_str(read_to_string(session_file))
load_session == disk

\* a plausible slip: every invocation starts again at part 1
first_chunk_restart(s) == 1

\* the first chunk the upload loop handles
first_chunk(s) == Len(s.completed_parts) + 1

chunk_offset(n, chunk_size) == (n - 1) * chunk_size

\* chunk_size.min((file_size - offset) as usize)
this_chunk_size(n, file_size, chunk_size) ==
    Min(chunk_size, file_size - chunk_offset(n, chunk_size))

total_chunks == total_chunks_of(session.total_size, session.chunk_size)

\* format!("\"{}\"", hex::encode(Sha256::digest(&data)))
etag_of(data) == <<"etag", data>>

\* rand::thread_rng(): every encryption draws randomness no earlier one
\* drew, so that no two encryptions give the same ciphertext
fresh_nonce == 7 + invocations

\* the sources an invocation may be given: the one above the in-memory
\* limit is offered while the key has no session; an invocation that finds
\* a session never looks at its source (lines 96-101), which the two other
\* sources exercise
Sources == IF disk = NoSession THEN Files ELSE Files \ {"huge.bin"}

\* ---------------------------------------------------------------- actions
\* upload_large_file, lines 96-108: load the session file of the key if it
\* exists, otherwise create a new session
Invoke(f) ==
    /\ ~Running
    /\ f \in Sources
    /\ invocations < MaxInvocations
    /\ invocations' = invocations + 1
    /\ file_path' = f
    /\ session' = IF disk # NoSession THEN load_session
                  ELSE create_new_session(f)
    /\ resumed' = (disk # NoSession)
    /\ start_parts' = Len(session'.completed_parts)
    /\ pc' = IF session'.encryption_complete THEN "verify" ELSE "encrypt"
    /\ error' = ""
    /\ calls' = <<>>
    /\ fh' = Closed
    /\ chunk_num' = 0
    /\ buffer' = <<>>
    /\ retry_count' = 0
    /\ after_part_failure' = (error = "UploadPart failed")
    /\ IF pc' = "encrypt"
       THEN available_space' \in DiskSpaces
       ELSE available_space' = 0
    /\ UNCHANGED << disk_vars, remote_vars, dirty, crashes, tampers, unit_vars >>

\* encrypt_large_file, lines 176-221: refuse when the disk has too little
\* room or the source is above the in-memory limit; otherwise read the
\* plaintext, encrypt it in memory (which fails when the handler has no
\* public key), create (truncate) the staging file
EncryptCreate ==
    /\ pc = "encrypt"
    /\ LET input_size == PlainLen(file_path)
       IN IF available_space < required_space(input_size)
          THEN /\ Fail("Insufficient disk space")
               /\ UNCHANGED << staged, dirty >>
          ELSE IF over_limit(input_size)
          THEN /\ Fail("Chunked encryption for files >100GB not yet implemented. Please split your file.")
               /\ UNCHANGED << staged, dirty >>
          ELSE \/ /\ buffer' = encrypt(Content(session.original_file), fresh_nonce)
                  /\ staged' = [staged EXCEPT ![session.encrypted_file] = <<>>]
                  /\ dirty' = dirty \ {session.encrypted_file}
                  /\ pc' = "encrypt_write"
                  /\ UNCHANGED << session, fh, chunk_num, retry_count, error >>
               \/ /\ Fail("No public keys loaded for encryption")
                  /\ UNCHANGED << staged, dirty >>
    /\ available_space' = 0
    /\ UNCHANGED << file_path, disk, remote_vars, resumed, start_parts, calls,
                    invocations, crashes, tampers, after_part_failure,
                    unit_vars >>

\* encrypt_large_file, lines 222-223: write_all and sync_all
EncryptWrite ==
    /\ pc = "encrypt_write"
    /\ staged' = IF staged[session.encrypted_file] = Missing
                 THEN staged   \* unlinked meanwhile: the path stays empty
                 ELSE [staged EXCEPT ![session.encrypted_file] = buffer]
    /\ buffer' = <<>>
    /\ pc' = "record_encryption"
    /\ UNCHANGED << session, fh, chunk_num, retry_count, error >>
    /\ UNCHANGED << file_path, disk, remote_vars, hist_vars, calls >>

\* upload_large_file, lines 120-124: mark the session encrypted, record the
\* size and checksum of the staged file, persist the session
RecordEncryption ==
    /\ pc = "record_encryption"
    /\ IF staged[session.encrypted_file] = Missing
       THEN /\ Fail("metadata failed")
            /\ UNCHANGED disk
       ELSE \E saved \in BOOLEAN :
            LET s == [session EXCEPT
                        !.encryption_complete = TRUE,
                        !.total_size = Len(staged[session.encrypted_file]),
                        !.encryption_checksum =
                           calculate_file_checksum(staged[session.encrypted_file])]
            IN IF saved
               THEN /\ session' = s
                    /\ save_session(s)
                    /\ pc' = "upload"
                    /\ UNCHANGED << fh, chunk_num, buffer, retry_count, error >>
               ELSE /\ Fail("save failed")
                    /\ UNCHANGED disk
    /\ UNCHANGED << file_path, staged, remote_vars, hist_vars, calls >>

\* upload_large_file, lines 128-138: the staged file must still exist and
\* match the recorded checksum
Verify ==
    /\ pc = "verify"
    /\ IF staged[session.encrypted_file] = Missing
       THEN Fail("Encrypted file missing. Please restart upload.")
       ELSE IF calculate_file_checksum(staged[session.encrypted_file])
                 # session.encryption_checksum
       THEN Fail("Encrypted file has been modified. Please restart upload.")
       ELSE /\ pc' = "upload"
            /\ UNCHANGED << session, fh, chunk_num, buffer, retry_count, error >>
    /\ UNCHANGED << file_path, disk_vars, remote_vars, hist_vars, calls >>

\* a plausible slip: one retry loop around the whole upload, so that a
\* failed unit is retried from the initiate call
RetryFromInitiate(msg) ==
    IF retry_count + 1 > MAX_RETRIES
    THEN Fail(msg)
    ELSE /\ retry_count' = retry_count + 1
         /\ pc' = "initiate"
         /\ UNCHANGED << session, fh, chunk_num, buffer, error >>

\* a plausible slip: after the last retry the loop goes on with the next
\* chunk instead of returning the error
RetryOrSkip(msg) ==
    IF retry_count + 1 > MAX_RETRIES
    THEN /\ pc' = "loop"
         /\ chunk_num' = chunk_num + 1
         /\ UNCHANGED << session, fh, buffer, retry_count, error >>
    ELSE /\ retry_count' = retry_count + 1
         /\ UNCHANGED << pc, session, fh, chunk_num, buffer, error >>

\* a plausible slip: the error of the upload step is swallowed and the
\* clean-up of step 3 runs anyway
RetryOrSwallow(msg) ==
    IF retry_count + 1 > MAX_RETRIES
    THEN /\ pc' = "cleanup"
         /\ fh' = Closed
         /\ UNCHANGED << session, chunk_num, buffer, retry_count, error >>
    ELSE /\ retry_count' = retry_count + 1
         /\ UNCHANGED << pc, session, fh, chunk_num, buffer, error >>

\* retry_operation, lines 352-374: count the failure, give up beyond
\* max_retries, otherwise sleep and invoke the operation again
RetryOrFail(msg) ==
    IF retry_count + 1 > MAX_RETRIES
    THEN Fail(msg)
    ELSE /\ retry_count' = retry_count + 1
         /\ UNCHANGED << pc, session, fh, chunk_num, buffer, error >>

\* upload_encrypted_file_with_retry, lines 261-268
UploadStart ==
    /\ pc = "upload"
    /\ pc' = IF session.upload_id = 0 THEN "initiate" ELSE "open"
    /\ retry_count' = 0
    /\ UNCHANGED << file_path, session, fh, chunk_num, buffer, error,
                    disk_vars, remote_vars, hist_vars, calls >>

\* initiate_multipart_upload_with_retry, one invocation of the operation;
\* on success the remote side opens a fresh upload and its identifier is
\* stored in the session (line 269)
InitiateAttempt ==
    /\ pc = "initiate"
    /\ Issue(<<"initiate", 0>>)
    /\ \E ok \in BOOLEAN :
          IF ok
          THEN /\ remote_parts' = Append(remote_parts, <<>>)
               /\ session' = [session EXCEPT !.upload_id = Len(remote_parts) + 1]
               /\ pc' = "save_upload_id"
               /\ UNCHANGED << fh, chunk_num, buffer, retry_count, error >>
          ELSE /\ RetryOrFail("InitiateMultipartUpload failed")
               /\ UNCHANGED remote_parts
    /\ UNCHANGED << file_path, disk_vars, remote_done, hist_vars >>

\* upload_encrypted_file_with_retry, line 273
SaveUploadId ==
    /\ pc = "save_upload_id"
    /\ \E saved \in BOOLEAN :
          IF saved
          THEN /\ save_session(session)
               /\ pc' = "open"
               /\ UNCHANGED << session, fh, chunk_num, buffer, retry_count, error >>
          ELSE /\ Fail("save failed")
               /\ UNCHANGED disk
    /\ UNCHANGED << file_path, staged, remote_vars, hist_vars, calls >>

\* upload_encrypted_file_with_retry, lines 277-279: open the staged file
\* and enter the loop at the first unfinished chunk
OpenFile ==
    /\ pc = "open"
    /\ IF staged[session.encrypted_file] = Missing
       THEN Fail("open failed")
       ELSE /\ fh' = staged[session.encrypted_file]
            /\ chunk_num' = first_chunk(session)
            /\ pc' = "loop"
            /\ UNCHANGED << session, buffer, retry_count, error >>
    /\ UNCHANGED << file_path, disk_vars, remote_vars, hist_vars, calls >>

\* upload_encrypted_file_with_retry, lines 279-291: leave the loop after the
\* last chunk, otherwise seek and read exactly this chunk's bytes
ReadChunk ==
    /\ pc = "loop"
    /\ IF chunk_num > total_chunks
       THEN /\ pc' = "complete"
            /\ retry_count' = 0
            /\ UNCHANGED << session, fh, chunk_num, buffer, error >>
       ELSE LET offset == chunk_offset(chunk_num, session.chunk_size)
                size   == this_chunk_size(chunk_num, session.total_size,
                                          session.chunk_size)
            IN IF offset + size > Len(fh)
               THEN Fail("failed to fill whole buffer")
               ELSE /\ buffer' = SubSeq(fh, offset + 1, offset + size)
                    /\ pc' = "upload_part"
                    /\ retry_count' = 0
                    /\ UNCHANGED << session, fh, chunk_num, error >>
    /\ UNCHANGED << file_path, disk_vars, remote_vars, hist_vars, calls >>

\* upload_part_with_retry, one invocation of the operation; on success the
\* remote side stores the part under the upload and returns its entity tag
UploadPartAttempt ==
    /\ pc = "upload_part"
    /\ Issue(<<"part", chunk_num>>)
    /\ \E ok \in BOOLEAN :
          IF ok
          THEN /\ remote_parts' =
                    [remote_parts EXCEPT ![session.upload_id] =
                        (chunk_num :> buffer) @@ @]
               /\ pc' = "record_part"
               /\ UNCHANGED << session, fh, chunk_num, buffer, retry_count, error >>
          ELSE /\ RetryOrFail("UploadPart failed")
               /\ UNCHANGED remote_parts
    /\ UNCHANGED << file_path, disk_vars, remote_done, hist_vars >>

\* a plausible slip: zero-based part numbers in the record
completed_part_zero_based(n, data) ==
    [ part_number |-> n - 1,
      etag        |-> etag_of(data),
      size        |-> Len(data),
      checksum    |-> Sha256(data) ]

\* the CompletedPart pushed at lines 303-309
completed_part(n, data) ==
    [ part_number |-> n,
      etag        |-> etag_of(data),
      size        |-> Len(data),
      checksum    |-> Sha256(data) ]

\* a plausible slip: the part is recorded in memory only
push_unsaved(s) ==
    /\ session' = s
    /\ UNCHANGED disk

\* lines 303-312: push the CompletedPart, then save the session
push_and_save(s) ==
    /\ session' = s
    /\ save_session(s)

\* upload_encrypted_file_with_retry, lines 303-312: record the part, persist
\* the session, go on with the next chunk
RecordPart ==
    /\ pc = "record_part"
    /\ \E saved \in BOOLEAN :
          LET s == [session EXCEPT !.completed_parts =
                       Append(@, completed_part(chunk_num, buffer))]
          IN IF saved
             THEN /\ push_and_save(s)
                  /\ chunk_num' = chunk_num + 1
                  /\ buffer' = <<>>
                  /\ pc' = "loop"
                  /\ UNCHANGED << fh, retry_count, error >>
             ELSE /\ Fail("save failed")
                  /\ UNCHANGED disk
    /\ UNCHANGED << file_path, staged, remote_vars, hist_vars, calls >>

\* complete_multipart_upload_with_retry, one invocation of the operation,
\* given session.completed_parts
CompleteAttempt ==
    /\ pc = "complete"
    /\ Issue(<<"complete", 0>>)
    /\ \E ok \in BOOLEAN :
          IF ok
          THEN /\ remote_done' = remote_done \cup {session.upload_id}
               /\ fh' = Closed
               /\ pc' = "cleanup"
               /\ UNCHANGED << session, chunk_num, buffer, retry_count, error >>
          ELSE /\ RetryOrFail("CompleteMultipartUpload failed")
               /\ UNCHANGED remote_done
    /\ UNCHANGED << file_path, disk_vars, remote_parts, hist_vars >>

\* upload_large_file, line 150: remove the staged file
RemoveStaged ==
    /\ pc = "cleanup"
    /\ IF staged[session.encrypted_file] = Missing
       THEN /\ Fail("remove failed")
            /\ UNCHANGED staged
       ELSE /\ staged' = [staged EXCEPT ![session.encrypted_file] = Missing]
            /\ pc' = "cleanup_session"
            /\ UNCHANGED << session, fh, chunk_num, buffer, retry_count, error >>
    /\ UNCHANGED << file_path, disk, remote_vars, hist_vars, calls >>

\* upload_large_file, lines 151-156: remove the session file, return Ok
RemoveSession ==
    /\ pc = "cleanup_session"
    /\ disk' = NoSession
    /\ pc' = "done"
    /\ DropMemory
    /\ UNCHANGED error
    /\ UNCHANGED << file_path, staged, remote_vars, hist_vars, calls >>

\* ---------------------------------------------------------------- environment
\* the process is killed, or the task running upload_large_file is aborted
Crash ==
    /\ Running
    /\ crashes < MaxCrashes
    /\ crashes' = crashes + 1
    /\ pc' = "idle"
    /\ DropMemory
    /\ available_space' = 0
    /\ after_part_failure' = FALSE
    /\ UNCHANGED << file_path, error, disk_vars, remote_vars, resumed,
                    start_parts, calls, dirty, invocations, tampers, unit_vars >>

Tampered(p) ==
    /\ tampers < MaxTampers
    /\ tampers' = tampers + 1
    /\ dirty' = dirty \cup {p}
    /\ UNCHANGED << pc, file_path, session, disk, chunk_num, buffer,
                    retry_count, error, remote_vars, resumed, start_parts,
                    calls, invocations, crashes, available_space,
                    after_part_failure, unit_vars >>

HandleOn(p) == fh # Closed /\ session.encrypted_file = p

\* another process overwrites the first byte of a staged file in place
TamperModify(p) ==
    /\ staged[p] # Missing /\ Len(staged[p]) > 0
    /\ staged' = [staged EXCEPT ![p] = [@ EXCEPT ![1] = 0]]
    /\ fh' = IF HandleOn(p) THEN staged'[p] ELSE fh
    /\ Tampered(p)

\* another process truncates a staged file by one byte
TamperTruncate(p) ==
    /\ staged[p] # Missing /\ Len(staged[p]) > 0
    /\ staged' = [staged EXCEPT ![p] = SubSeq(@, 1, Len(@) - 1)]
    /\ fh' = IF HandleOn(p) THEN staged'[p] ELSE fh
    /\ Tampered(p)

\* another process unlinks a staged file; an open handle keeps its bytes
TamperDelete(p) ==
    /\ staged[p] # Missing
    /\ staged' = [staged EXCEPT ![p] = Missing]
    /\ UNCHANGED fh
    /\ Tampered(p)

\* ================================================================ retry
\* LargeFileHandler::retry_operation on its own, with an operation whose
\* every invocation may succeed or fail; the k-th invocation fails with an
\* error of its own, written k
RopStart ==
    [ pc          |-> "call",
      retry_count |-> 0,
      delay_ms    |-> INITIAL_RETRY_DELAY,
      invoked     |-> 0,      \* history: invocations of the operation
      last_error  |-> 0,      \* history: error of the latest invocation
      returned    |-> "",     \* "ok", "err" once retry_operation returned
      value       |-> 0,      \* the Ok value or the Err error returned
      waits       |-> 0,      \* history: sleeps so far
      wait        |-> 0,      \* history: length of the latest sleep
      prev_wait   |-> 0 ]     \* history: length of the sleep before it

\* the Ok value of the operation
OpValue == 77

\* line 355: retry_count > self.retry_config.max_retries
exhausted(count) == count > MAX_RETRIES

\* retry_operation, lines 350-359: invoke the operation; return its value,
\* or count the failure and return the error beyond max_retries
RopCall ==
    /\ rop.pc = "call"
    /\ \E ok \in BOOLEAN :
          LET n == rop.invoked + 1
          IN IF ok
             THEN rop' = [rop EXCEPT !.invoked = n, !.pc = "returned",
                                     !.returned = "ok", !.value = OpValue]
             ELSE IF exhausted(rop.retry_count + 1)
             THEN rop' = [rop EXCEPT !.invoked = n, !.last_error = n,
                                     !.retry_count = @ + 1, !.pc = "returned",
                                     !.returned = "err", !.value = n]
             ELSE rop' = [rop EXCEPT !.invoked = n, !.last_error = n,
                                     !.retry_count = @ + 1, !.pc = "sleep"]
    /\ UNCHANGED << transfer_vars, sp, dl, http, xml, sig, req, kh, tmp, psz, stg >>

\* a plausible slip: the delay is never capped
backoff_uncapped(delay_ms) == delay_ms * EXPONENTIAL_BASE

\* lines 368-369: (delay_ms as f64 * exponential_base) as u64, then
\* .min(max_delay_ms)
backoff(delay_ms) == Min(delay_ms * EXPONENTIAL_BASE, MAX_RETRY_DELAY)

\* line 372: (delay_ms as f64 * 0.1 * rand::random::<f64>()) as u64, for the
\* random numbers 0, 1/2 and the largest one below 1
jitters(delay_ms) == {0, delay_ms \div 20, delay_ms \div 10}

\* retry_operation, lines 365-373: sleep, then compute the next delay
RopSleep ==
    /\ rop.pc = "sleep"
    /\ \E jitter \in jitters(backoff(rop.delay_ms)) :
          rop' = [rop EXCEPT !.waits = @ + 1,
                             !.prev_wait = rop.wait,
                             !.wait = rop.delay_ms,
                             !.delay_ms = backoff(rop.delay_ms) + jitter,
                             !.pc = "call"]
    /\ UNCHANGED << transfer_vars, sp, dl, http, xml, sig, req, kh, tmp, psz, stg >>

RetryNext == RopCall \/ RopSleep

\* ================================================================ session paths
\* LargeFileHandler::get_session_path for two object keys.  A key is a
\* sequence of characters: a letter, an underscore, a slash, a backslash
KeyChars == {"a", "_", "/", "\\"}

Keys == UNION {[1..n -> KeyChars] : n \in 1..MaxKeyLen}

\* r2_key.replace('/', "_").replace('\\', "_")
safe_name(r2_key) ==
    [i \in 1..Len(r2_key) |->
        IF r2_key[i] \in {"/", "\\"} THEN "_" ELSE r2_key[i]]

\* self.session_dir.join(format!("{}.session", safe_name))
get_session_path(r2_key) ==
    << "session_dir", safe_name(r2_key) \o <<".session">> >>

PathInit ==
    /\ TransferInit
    /\ xml = Idle /\ sig = Idle /\ req = Idle /\ kh = Idle
    /\ tmp = Idle /\ psz = Idle /\ stg = Idle
    /\ rop = RopStart
    /\ dl = Idle
    /\ http = Idle
    /\ \E k1 \in Keys, k2 \in Keys :
          sp = [pc |-> "keys", key1 |-> k1, key2 |-> k2,
                path1 |-> <<>>, path2 |-> <<>>]

\* two transfers look up their session files
SessionPaths ==
    /\ sp.pc = "keys"
    /\ sp' = [sp EXCEPT !.pc = "paths",
                        !.path1 = get_session_path(sp.key1),
                        !.path2 = get_session_path(sp.key2)]
    /\ UNCHANGED << transfer_vars, rop, dl, http, xml, sig, req, kh, tmp, psz, stg >>

PathNext == SessionPaths

PathSpec == PathInit /\ [][PathNext]_vars

\* ================================================================ download
\* ChunkedDownloader::download_file without decryption.  The remote object
\* and the file found at output_path are any short byte strings; the store
\* answers the size request with the length of the object and a range
\* request with the bytes of that range (the source leaves both calls as
\* placeholders that return 0 and no bytes)
Bytes(n) == UNION {[1..k -> {1, 2}] : k \in 0..n}

get_object_size(object) == Len(object)

\* bytes start..end of the object, counted from 0
download_range(object, start, end) == SubSeq(object, start + 1, end + 1)

\* write_all at position pos of a file that is not truncated
write_at(file, pos, data) ==
    SubSeq(file, 1, pos) \o data
       \o SubSeq(file, pos + Len(data) + 1, Len(file))

DownloadInit ==
    /\ TransferInit
    /\ xml = Idle /\ sig = Idle /\ req = Idle /\ kh = Idle
    /\ tmp = Idle /\ psz = Idle /\ stg = Idle
    /\ rop = RopStart
    /\ sp = Idle
    /\ http = Idle
    /\ \E object \in Bytes(MaxObjectLen),
          local \in Bytes(MaxObjectLen + 1) \cup {Missing} :
          dl = [ pc           |-> "start",
                 object       |-> object,   \* the remote object
                 local        |-> local,    \* the file at output_path
                 object_size  |-> 0,
                 start_offset |-> 0,
                 downloaded   |-> 0,
                 pos          |-> 0,        \* where the next write goes
                 requests     |-> <<>> ]    \* history: ranges requested

\* download_file, lines 327-346: ask for the size, resume behind a shorter
\* local file, open the file (create, write, append when resuming)
DlOpen ==
    /\ dl.pc = "start"
    /\ LET object_size == get_object_size(dl.object)
           start_offset ==
               IF dl.local # Missing /\ Len(dl.local) < object_size
               THEN Len(dl.local) ELSE 0
           file == IF dl.local = Missing THEN <<>> ELSE dl.local
       IN dl' = [dl EXCEPT !.pc = "loop",
                           !.object_size = object_size,
                           !.start_offset = start_offset,
                           !.local = file,
                           !.pos = IF start_offset > 0 THEN Len(file) ELSE 0,
                           !.downloaded = start_offset]
    /\ UNCHANGED << transfer_vars, rop, sp, http, xml, sig, req, kh, tmp, psz, stg >>

\* download_file, lines 348-361: one round of the loop
DlChunk ==
    /\ dl.pc = "loop"
    /\ dl.downloaded < dl.object_size
    /\ LET end == Min(dl.downloaded + DownloadChunk - 1, dl.object_size - 1)
           chunk == download_range(dl.object, dl.downloaded, end)
       IN dl' = [dl EXCEPT !.requests = Append(@, <<dl.downloaded, end>>),
                           !.local = write_at(@, dl.pos, chunk),
                           !.pos = @ + Len(chunk),
                           !.downloaded = @ + Len(chunk)]
    /\ UNCHANGED << transfer_vars, rop, sp, http, xml, sig, req, kh, tmp, psz, stg >>

\* download_file, lines 348 and 371: the loop is left, Ok(()) is returned
DlReturn ==
    /\ dl.pc = "loop"
    /\ dl.downloaded >= dl.object_size
    /\ dl' = [dl EXCEPT !.pc = "done"]
    /\ UNCHANGED << transfer_vars, rop, sp, http, xml, sig, req, kh, tmp, psz, stg >>

DownloadNext == DlOpen \/ DlChunk \/ DlReturn

DownloadSpec == DownloadInit /\ [][DownloadNext]_vars

\* ================================================================ store client
\* R2Client: one signed request and what the client makes of the answer.
\* The answer is missing (send() failed) or has a status and a body; the
\* body may be unreadable (the connection breaks while it is read) and,
\* for a listing, may not be well-formed XML
Ops == {"download", "upload", "list", "delete"}

Statuses == {200, 204, 299, 300, 403, 404, 500}

NoResponse == [absent |-> TRUE]

Responses ==
    [status : Statuses, body : {"AccessDenied"},
     readable : BOOLEAN, wellformed : BOOLEAN]

\* StatusCode::is_success
is_success(status) == 200 <= status /\ status <= 299

Ok == [ok |-> TRUE]

Err(kind, status, text) ==
    [ok |-> FALSE, kind |-> kind, status |-> status, text |-> text]

\* "R2 ... failed with status {}: {}", status,
\* response.text().await.unwrap_or_default()
status_error(r) ==
    Err("status", r.status, IF r.readable THEN r.body ELSE "")

\* download_object, lines 132-155
download_object(r) ==
    IF r = NoResponse THEN Err("send", 0, "Failed to download object from R2")
    ELSE IF ~is_success(r.status) THEN status_error(r)
    ELSE IF ~r.readable THEN Err("body", 0, "Failed to read response body")
    ELSE Ok

\* upload_object, lines 171-190
upload_object(r) ==
    IF r = NoResponse THEN Err("send", 0, "Failed to upload object to R2")
    ELSE IF ~is_success(r.status) THEN status_error(r)
    ELSE Ok

\* list_objects, lines 208-251
list_objects(r) ==
    IF r = NoResponse THEN Err("send", 0, "Failed to list objects in R2")
    ELSE IF ~is_success(r.status) THEN status_error(r)
    ELSE IF ~r.readable THEN Err("body", 0, "")
    ELSE IF ~r.wellformed THEN Err("xml", 0, "XML parsing error")
    ELSE Ok

\* a plausible slip: a missing object is an error
delete_accepts_strict(status) == is_success(status)

\* line 275, negated: the statuses delete_object takes as success
delete_accepts(status) == is_success(status) \/ status = 404

\* delete_object, lines 267-285
delete_object(r) ==
    IF r = NoResponse THEN Err("send", 0, "Failed to delete object from R2")
    ELSE IF ~delete_accepts(r.status) THEN status_error(r)
    ELSE Ok

ClientInit ==
    /\ TransferInit
    /\ xml = Idle /\ sig = Idle /\ req = Idle /\ kh = Idle
    /\ tmp = Idle /\ psz = Idle /\ stg = Idle
    /\ rop = RopStart
    /\ sp = Idle
    /\ dl = Idle
    /\ \E op \in Ops, r \in Responses \cup {NoResponse} :
          http = [pc |-> "sent", op |-> op, response |-> r, outcome |-> Ok]

\* the request returns
Respond ==
    /\ http.pc = "sent"
    /\ http' = [http EXCEPT
                  !.pc = "done",
                  !.outcome =
                     IF http.op = "download" THEN download_object(http.response)
                     ELSE IF http.op = "upload" THEN upload_object(http.response)
                     ELSE IF http.op = "list" THEN list_objects(http.response)
                     ELSE delete_object(http.response)]
    /\ UNCHANGED << transfer_vars, rop, sp, dl, xml, sig, req, kh, tmp, psz, stg >>

ClientNext == Respond

ClientSpec == ClientInit /\ [][ClientNext]_vars

\* ================================================================ listing
\* R2Client::list_objects, lines 226-251: the keys read from the body of a
\* listing response.  The body is a well-formed document with one Contents
\* element per object; what stands between <Key> and </Key> is a sequence
\* of text nodes, CDATA sections and comments.  A text node is written
\* with entity references, which the reader leaves in place
Text(raw) == [type |-> "Text", name |-> "", raw |-> raw]

CData(raw) == [type |-> "CData", name |-> "", raw |-> raw]

Comment == [type |-> "Comment", name |-> "", raw |-> <<>>]

Start(name) == [type |-> "Start", name |-> name, raw |-> <<>>]

End(name) == [type |-> "End", name |-> name, raw |-> <<>>]

Eof == [type |-> "Eof", name |-> "", raw |-> <<>>]

\* what a <Key> element of the response may hold
KeyContents ==
    { << Text(<<"a">>) >>,
      << Text(<<"b">>) >>,
      << Text(<<"a", "&amp;", "b">>) >>,
      << Text(<<"a", "&x;">>) >>,
      << CData(<<"c">>) >>,
      << Text(<<"a">>), Comment, Text(<<"b">>) >>,
      << >> }

Listings == UNION {[1..n -> KeyContents] : n \in 0..MaxListed}

\* the events quick_xml's reader yields for the document, in order
RECURSIVE events_of(_)
events_of(elements) ==
    IF elements = <<>> THEN << End("ListBucketResult"), Eof >>
    ELSE << Start("Contents"), Start("Key") >> \o Head(elements)
         \o << End("Key"), Start("Size"), Text(<<"1">>), End("Size"),
               End("Contents") >>
         \o events_of(Tail(elements))

\* BytesText::unescape: a predefined entity becomes its character, an
\* unknown entity is an error
unescapable(raw) == \A i \in 1..Len(raw) : raw[i] # "&x;"

unescape(raw) ==
    [i \in 1..Len(raw) |-> IF raw[i] = "&amp;" THEN "&" ELSE raw[i]]

\* line 233: the guard of the Text arm
takes_text(in_key) == in_key

ListInit ==
    /\ TransferInit
    /\ rop = RopStart
    /\ sp = Idle /\ dl = Idle /\ http = Idle
    /\ sig = Idle /\ req = Idle /\ kh = Idle
    /\ tmp = Idle /\ psz = Idle /\ stg = Idle
    /\ \E elements \in Listings :
          xml = [ pc       |-> "loop",
                  elements |-> elements,       \* the <Key> elements sent
                  events   |-> << Start("ListBucketResult") >>
                                 \o events_of(elements),
                  in_key   |-> FALSE,
                  objects  |-> <<>>,
                  outcome  |-> Ok ]

\* lines 229-247: one round of the loop
ReadEvent ==
    /\ xml.pc = "loop"
    /\ LET e == Head(xml.events)
           rest == Tail(xml.events)
       IN IF e.type = "Start" /\ e.name = "Key"
          THEN xml' = [xml EXCEPT !.events = rest, !.in_key = TRUE]
          ELSE IF e.type = "Text" /\ takes_text(xml.in_key)
          THEN IF unescapable(e.raw)
               THEN xml' = [xml EXCEPT !.events = rest,
                                       !.objects = Append(@, unescape(e.raw))]
               ELSE xml' = [xml EXCEPT !.pc = "done",
                                       !.outcome = Err("xml", 0, "unescape")]
          ELSE IF e.type = "End" /\ e.name = "Key"
          THEN xml' = [xml EXCEPT !.events = rest, !.in_key = FALSE]
          ELSE IF e.type = "Eof"
          THEN xml' = [xml EXCEPT !.pc = "done", !.events = rest]
          ELSE xml' = [xml EXCEPT !.events = rest]
    /\ UNCHANGED << transfer_vars, rop, sp, dl, http, sig, req, kh, tmp, psz, stg >>

ListNext == ReadEvent

ListSpec == ListInit /\ [][ListNext]_vars

\* ================================================================ signing
\* R2Client::sign_request for two requests of one client.  Texts are
\* sequences of characters; a fixed piece of text of the source stands as
\* one element.  A digest in hexadecimal stands as one element too
HmacSha256(key, data) == <<"hmac", key, data>>

Methods == {"GET", "PUT", "DELETE"}

\* the bucket is b; k and j are object keys, q and r are query strings
Paths ==
    { <<"/", "b">>, <<"/", "b", "?">>,
      <<"/", "b", "/", "k">>, <<"/", "b", "/", "j">>,
      <<"/", "b", "?", "q">>, <<"/", "b", "?", "r">>,
      <<"/", "b", "/", "k", "?", "q">>, <<"/", "b", "/", "k", "?", "q", "?">> }

Secrets == { <<"s">>, <<"t">> }

Payloads == { <<>>, <<1>>, <<2>> }

\* DateTime<Utc>: a day, a time of day in whole seconds, and the
\* nanoseconds within the second
DateTimes ==
    [ date : {"20240101", "20240102"}, time : {"000000", "000001"},
      nanos : {0, 500} ]

SignInputs ==
    [ secret_access_key : Secrets, method : Methods, path : Paths,
      payload : Payloads, datetime : DateTimes ]

\* datetime.format("%Y%m%dT%H%M%SZ")
date_str(datetime) == << datetime.date, "T", datetime.time, "Z" >>

\* datetime.format("%Y%m%d")
date_short(datetime) == << datetime.date >>

\* path.find('?'): the index of the first question mark, 0 when none
find_query(path) ==
    IF \E i \in 1..Len(path) : path[i] = "?"
    THEN CHOOSE i \in 1..Len(path) :
            path[i] = "?" /\ \A j \in 1..(i - 1) : path[j] # "?"
    ELSE 0

\* lines 64-68
path_only(path) ==
    IF find_query(path) = 0 THEN path
    ELSE SubSeq(path, 1, find_query(path) - 1)

query_string(path) ==
    IF find_query(path) = 0 THEN <<>>
    ELSE SubSeq(path, find_query(path) + 1, Len(path))

\* format!("{}.r2.cloudflarestorage.com", self.account_id)
host == << "account", ".r2.cloudflarestorage.com" >>

\* lines 70-73
canonical_headers(payload_hash, datetime) ==
    << "host:" >> \o host
       \o << "\nx-amz-content-sha256:", payload_hash, "\nx-amz-date:" >>
       \o date_str(datetime)

signed_headers == "host;x-amz-content-sha256;x-amz-date"

\* a plausible slip: the query string is left out of what is signed
canonical_request_without_query(method, path, payload_hash, datetime) ==
    << method, "\n" >> \o path_only(path) \o << "\n" >>
       \o << "\n" >> \o canonical_headers(payload_hash, datetime)
       \o << "\n\n", signed_headers, "\n", payload_hash >>

\* lines 77-85
canonical_request(method, path, payload_hash, datetime) ==
    << method, "\n" >> \o path_only(path) \o << "\n" >>
       \o query_string(path)
       \o << "\n" >> \o canonical_headers(payload_hash, datetime)
       \o << "\n\n", signed_headers, "\n", payload_hash >>

\* format!("{}/auto/s3/aws4_request", date_short)
credential_scope(datetime) == date_short(datetime) \o << "/auto/s3/aws4_request" >>

\* lines 91-94
string_to_sign(datetime, canonical_request_hash) ==
    << "AWS4-HMAC-SHA256\n" >> \o date_str(datetime) \o << "\n" >>
       \o credential_scope(datetime) \o << "\n", canonical_request_hash >>

\* lines 96-102: the key derived from the secret, the day and the scope
signing_key(secret_access_key, datetime) ==
    LET key0 == << "AWS4" >> \o secret_access_key
        key1 == HmacSha256(key0, date_short(datetime))
        key2 == HmacSha256(key1, << "auto" >>)
        key3 == HmacSha256(key2, << "s3" >>)
    IN HmacSha256(key3, << "aws4_request" >>)

\* lines 49-106
signature(in) ==
    LET payload_hash == Sha256(in.payload)
        canonical_request_hash ==
            Sha256(canonical_request(in.method, in.path, payload_hash,
                                     in.datetime))
    IN HmacSha256(signing_key(in.secret_access_key, in.datetime),
                  string_to_sign(in.datetime, canonical_request_hash))

\* lines 108-111
authorization(in) ==
    << "AWS4-HMAC-SHA256 Credential=", "access_key_id", "/" >>
       \o credential_scope(in.datetime)
       \o << ", SignedHeaders=", signed_headers, ", Signature=",
             signature(in) >>

\* the arguments of the two calls differ in at most one of them
Fields == {"secret_access_key", "method", "path", "payload", "datetime"}

SignPairs ==
    { p \in SignInputs \X SignInputs :
        \E f \in Fields :
            \A g \in Fields \ {f} : p[1][g] = p[2][g] }

NoHeader == << >>

SignInit ==
    /\ TransferInit
    /\ rop = RopStart
    /\ sp = Idle /\ dl = Idle /\ http = Idle
    /\ xml = Idle /\ req = Idle /\ kh = Idle
    /\ tmp = Idle /\ psz = Idle /\ stg = Idle
    /\ \E p \in SignPairs :
          sig = [ pc |-> "first", in1 |-> p[1], in2 |-> p[2],
                  authorization1 |-> NoHeader, authorization2 |-> NoHeader,
                  signature1 |-> NoHeader, signature2 |-> NoHeader ]

\* the first request is signed
SignFirst ==
    /\ sig.pc = "first"
    /\ sig' = [sig EXCEPT !.pc = "second",
                          !.signature1 = signature(sig.in1),
                          !.authorization1 = authorization(sig.in1)]
    /\ UNCHANGED << transfer_vars, rop, sp, dl, http, xml, req, kh, tmp, psz, stg >>

\* the second request is signed
SignSecond ==
    /\ sig.pc = "second"
    /\ sig' = [sig EXCEPT !.pc = "signed",
                          !.signature2 = signature(sig.in2),
                          !.authorization2 = authorization(sig.in2)]
    /\ UNCHANGED << transfer_vars, rop, sp, dl, http, xml, req, kh, tmp, psz, stg >>

SignNext == SignFirst \/ SignSecond

SignSpec == SignInit /\ [][SignNext]_vars

\* ================================================================ object paths
\* download_object, upload_object and delete_object: the path and the URL
\* built for an object key.  A key is a sequence of bytes, each written as
\* the character it stands for; C3 and A9 are the two bytes of a letter
\* outside ASCII
KeyBytes == {"a", ".", "~", "/", " ", "?", "%", "C3", "A9"}

ObjectKeys == UNION {[1..n -> KeyBytes] : n \in 0..(MaxKeyLen + 1)}

\* c.is_ascii_alphanumeric() || c == '-' || c == '_' || c == '.' || c == '~'
is_unreserved(c) == c \in {"a", "-", "_", ".", "~"}

\* format!("%{:02X}", byte)
percent(c) ==
    CASE c = "/" -> << "%", "2", "F" >>
      [] c = " " -> << "%", "2", "0" >>
      [] c = "?" -> << "%", "3", "F" >>
      [] c = "%" -> << "%", "2", "5" >>
      [] c = "C3" -> << "%", "C", "3" >>
      [] c = "A9" -> << "%", "A", "9" >>

\* urlencoding::encode, lines 290-302
RECURSIVE urlencoding_encode(_)
urlencoding_encode(s) ==
    IF s = <<>> THEN <<>>
    ELSE (IF is_unreserved(Head(s)) THEN << Head(s) >> ELSE percent(Head(s)))
         \o urlencoding_encode(Tail(s))

\* key.split('/'): the pieces between the slashes, empty ones included
RECURSIVE split(_)
split(key) ==
    IF \A i \in 1..Len(key) : key[i] # "/" THEN << key >>
    ELSE LET i == CHOOSE i \in 1..Len(key) :
                     key[i] = "/" /\ \A j \in 1..(i - 1) : key[j] # "/"
         IN << SubSeq(key, 1, i - 1) >> \o split(SubSeq(key, i + 1, Len(key)))

\* .collect::<Vec<_>>().join("/")
RECURSIVE join(_)
join(segments) ==
    IF Len(segments) = 1 THEN segments[1]
    ELSE segments[1] \o << "/" >> \o join(Tail(segments))

\* a plausible slip: the key is encoded as a whole
encoded_key_whole(key) == urlencoding_encode(key)

\* lines 121-125: URL encode the key but preserve forward slashes
encoded_key(key) ==
    LET segments == split(key)
    IN join([i \in 1..Len(segments) |-> urlencoding_encode(segments[i])])

bucket_name == << "b" >>

endpoint == << "https://", "account", ".r2.cloudflarestorage.com" >>

\* format!("/{}/{}", self.bucket_name, encoded_key)
object_path(key) == << "/" >> \o bucket_name \o << "/" >> \o encoded_key(key)

\* format!("{}{}", self.endpoint, path)
object_url(key) == endpoint \o object_path(key)

ObjectOps == {"download", "upload", "delete"}

method_of(op) ==
    IF op = "download" THEN "GET" ELSE IF op = "upload" THEN "PUT" ELSE "DELETE"

ObjectInit ==
    /\ TransferInit
    /\ rop = RopStart
    /\ sp = Idle /\ dl = Idle /\ http = Idle
    /\ xml = Idle /\ sig = Idle /\ kh = Idle
    /\ tmp = Idle /\ psz = Idle /\ stg = Idle
    /\ \E op \in ObjectOps, key \in ObjectKeys :
          req = [ pc |-> "start", op |-> op, key |-> key,
                  url |-> <<>>, canonical_request |-> <<>>,
                  signed_path |-> <<>> ]

\* lines 119-130, 158-169, 254-265: the URL of the request, and what
\* sign_request puts into the canonical request for the path built
BuildRequest ==
    /\ req.pc = "start"
    /\ LET path == object_path(req.key)
           datetime == [date |-> "20240101", time |-> "000000", nanos |-> 0]
       IN req' = [req EXCEPT
                    !.pc = "built",
                    !.url = object_url(req.key),
                    !.signed_path = path_only(path),
                    !.canonical_request =
                        canonical_request(method_of(req.op), path,
                                          Sha256(<<>>), datetime)]
    /\ UNCHANGED << transfer_vars, rop, sp, dl, http, xml, sig, kh, tmp, psz, stg >>

ObjectNext == BuildRequest

ObjectSpec == ObjectInit /\ [][ObjectNext]_vars

\* ================================================================ key handler
\* PgpHandler (src/src/crypto.rs): the keys it holds after a sequence of
\* calls, and what encrypt and decrypt do with them.  Key data is a
\* sequence of armored blocks.  A block is a public or a private key
\* block; its body is well-formed or not, and its END line may be missing.
\* A private key is protected by a passphrase or by none
PubBlock(key, body, closed) ==
    [kind |-> "public", key |-> key, body |-> body, closed |-> closed,
     lock |-> "none"]

PrivBlock(key, body, lock) ==
    [kind |-> "private", key |-> key, body |-> body, closed |-> TRUE,
     lock |-> lock]

Blocks ==
    { PubBlock("A", "ok", TRUE), PubBlock("B", "ok", TRUE),
      PubBlock("C", "corrupt", TRUE), PubBlock("C", "ok", FALSE),
      PrivBlock("X", "ok", "none"), PrivBlock("Y", "ok", "p"),
      PrivBlock("Z", "corrupt", "none") }

KeyData == UNION {[1..n -> Blocks] : n \in 0..MaxBlocks}

\* Option<&str>: no passphrase, the passphrase of key Y, a wrong one
Passphrases == {"None", "p", "w"}

\* hex::encode(public_key.primary_key.fingerprint()), taken as injective
fingerprint(key) == << "fingerprint", key >>

\* extract_key_info
extract_key_info(key) == [name |-> key, fingerprint |-> fingerprint(key)]

\* secret_key.unlock(password_fn, |_| Ok(())): a key without protection
\* opens with any passphrase
unlock(secret_key, pass) == secret_key.lock = "none" \/ secret_key.lock = pass

NoKey == [absent |-> TRUE]

\* from_armor_single on a piece of key data: the key of the first armored
\* block, when that block is of the kind asked for, complete and well-formed
from_armor_single(data, kind) ==
    IF /\ Len(data) > 0
       /\ data[1].kind = kind /\ data[1].closed /\ data[1].body = "ok"
    THEN data[1]
    ELSE NoKey

\* from_armor_many on the whole data: fails when the first armored block is
\* not a public key block, and yields the keys of that block otherwise
from_armor_many_ok(data) == Len(data) > 0 /\ data[1].kind = "public"

from_armor_many(data) ==
    IF data[1].closed /\ data[1].body = "ok" THEN << data[1] >> ELSE << >>

RECURSIVE ascending(_)
ascending(S) ==
    IF S = {} THEN << >>
    ELSE LET least == CHOOSE x \in S : \A y \in S : x <= y
         IN << least >> \o ascending(S \ {least})

\* the blocks at which a BEGIN marker of the kind is found, in order
begin_positions(data, kind) ==
    ascending({i \in 1..Len(data) : data[i].kind = kind})

\* the blocks at which an END marker of the kind is found, in order
end_positions(data, kind) ==
    ascending({i \in 1..Len(data) : data[i].kind = kind /\ data[i].closed})

\* &data_str[begin_positions[i]..end_positions[i]]
key_block(data, kind, i) ==
    SubSeq(data, begin_positions(data, kind)[i], end_positions(data, kind)[i])

\* from_armor_single on a slice: a slice that runs over several blocks
\* does not parse
parse_block(slice, kind) ==
    IF Len(slice) = 1 THEN from_armor_single(slice, kind) ELSE NoKey

\* PgpHandler::new
PgpNew ==
    [ public_keys |-> << >>, key_info |-> << >>, secret_key |-> NoKey,
      stored_passphrase |-> "None" ]

is_loaded(key_info, key) ==
    \E k \in 1..Len(key_info) : key_info[k].fingerprint = fingerprint(key)

\* lines 40-41, 195-197: the key joins the handler and the list returned
push_key(st, key) ==
    [ h |-> [st.h EXCEPT !.public_keys = Append(@, key.key),
                         !.key_info = Append(@, extract_key_info(key.key))],
      loaded |-> Append(st.loaded, extract_key_info(key.key)) ]

\* a plausible slip: a key is added whether or not it is loaded already
push_new_key_unchecked(st, key) == push_key(st, key)

\* lines 192-200, 222-227: the key is added unless its fingerprint is loaded
push_new_key(st, key) ==
    IF is_loaded(st.h.key_info, key.key) THEN st ELSE push_key(st, key)

\* load_public_key, lines 33-44
load_public_key(h, data) ==
    LET public_key == from_armor_single(data, "public")
    IN IF public_key = NoKey
       THEN [h |-> h, result |-> Err("parse", 0, "Failed to parse public key")]
       ELSE [h |-> push_key([h |-> h, loaded |-> << >>], public_key).h,
             result |-> [ok |-> TRUE,
                         keys |-> << extract_key_info(public_key.key) >>]]

\* lines 181-212: the blocks between the public markers, one after another
RECURSIVE load_blocks(_, _, _)
load_blocks(st, data, i) ==
    IF i > Len(begin_positions(data, "public")) THEN st
    ELSE IF i > Len(end_positions(data, "public"))
         THEN load_blocks(st, data, i + 1)
    ELSE LET key == parse_block(key_block(data, "public", i), "public")
         IN IF key = NoKey THEN load_blocks(st, data, i + 1)
            ELSE load_blocks(push_new_key(st, key), data, i + 1)

\* lines 218-230: the keys of a bulk parse of the whole data
RECURSIVE load_many(_, _)
load_many(st, keys) ==
    IF keys = << >> THEN st
    ELSE load_many(push_new_key(st, Head(keys)), Tail(keys))

\* lines 214-240
load_fallback(st, data) ==
    IF from_armor_many_ok(data) THEN load_many(st, from_armor_many(data))
    ELSE IF from_armor_single(data, "public") # NoKey
         THEN push_key(st, from_armor_single(data, "public"))
    ELSE st

\* lines 242-247: what load_public_keys_from_bytes returns
loaded_result(st) ==
    [ h |-> st.h,
      result |-> IF st.loaded = << >>
                 THEN Err("keys", 0, "No valid keys found in keyring")
                 ELSE [ok |-> TRUE, keys |-> st.loaded] ]

\* line 215: the fallbacks are tried when no block gave a new key
or_fallback(by_position, data) ==
    IF by_position.loaded = << >>
    THEN load_fallback(by_position, data) ELSE by_position

\* load_public_keys_from_bytes, lines 155-248
load_public_keys_from_bytes(h, data) ==
    loaded_result(
        or_fallback(load_blocks([h |-> h, loaded |-> << >>], data, 1), data))

\* lines 148-152: what get_all_keys_from_bytes returns
all_keys_result(all) ==
    IF all.result.ok THEN all.result
    ELSE Err("keys", 0, "No valid keys found in data")

\* get_all_keys_from_bytes, lines 86-153: the same on a list of its own
get_all_keys_from_bytes(data) ==
    all_keys_result(load_public_keys_from_bytes(PgpNew, data))

\* lines 315-344: the first private block that parses, NoKey when none does
RECURSIVE first_private(_, _)
first_private(data, i) ==
    IF i > Len(begin_positions(data, "private")) THEN NoKey
    ELSE IF i > Len(end_positions(data, "private"))
         THEN first_private(data, i + 1)
    ELSE LET key == parse_block(key_block(data, "private", i), "private")
         IN IF key = NoKey THEN first_private(data, i + 1) ELSE key

\* lines 292-294, 333-350: the keys load_keyring retains and what it returns
keyring_result(public, secret_key) ==
    LET public_keys_loaded ==
            IF public.result.ok THEN public.result.keys ELSE << >>
        private_key_loaded == secret_key # NoKey
    IN [ h |-> IF private_key_loaded
               THEN [public.h EXCEPT !.secret_key = secret_key]
               ELSE public.h,
         result |-> IF public_keys_loaded = << >> /\ ~private_key_loaded
                    THEN Err("keys", 0, "No valid keys found in keyring")
                    ELSE [ok |-> TRUE, keys |-> public_keys_loaded,
                          private_key_loaded |-> private_key_loaded] ]

\* lines 280-282
store_passphrase(h, passphrase) ==
    IF passphrase # "None"
    THEN [h EXCEPT !.stored_passphrase = passphrase] ELSE h

\* load_keyring, lines 278-351
load_keyring(h, data, passphrase) ==
    keyring_result(
        load_public_keys_from_bytes(store_passphrase(h, passphrase), data),
        first_private(data, 1))

\* load_secret_key, lines 263-276
load_secret_key(h, data, passphrase) ==
    LET secret_key == from_armor_single(data, "private")
        stored == store_passphrase(h, passphrase)
    IN IF secret_key = NoKey
       THEN [h |-> h, result |-> Err("parse", 0, "Failed to parse secret key")]
       ELSE IF passphrase # "None" /\ ~unlock(secret_key, passphrase)
       THEN [h |-> stored,
             result |-> Err("unlock", 0,
                            "Failed to unlock secret key with passphrase")]
       ELSE [h |-> [stored EXCEPT !.secret_key = secret_key], result |-> Ok]

\* clear_public_keys, lines 250-253
clear_public_keys(h) == [h EXCEPT !.public_keys = << >>, !.key_info = << >>]

\* message.encrypt_to_keys(.., &key_refs) and to_armored_writer: one
\* armored message for the recipients given
encrypt_to_keys(data, key_refs) ==
    << "-----BEGIN PGP MESSAGE-----",
       [recipients |-> key_refs, literal |-> data, intact |-> TRUE] >>

\* a plausible slip: the message goes to the first key only
recipients_first(public_keys) == << Head(public_keys) >>

\* line 366: references to all public keys
recipients_of(public_keys) == public_keys

\* encrypt, lines 357-377; the library call succeeds or fails
PgpEncrypt(h, data, library) ==
    IF h.public_keys = << >>
    THEN Err("keys", 0, "No public keys loaded for encryption")
    ELSE IF library = "fails"
    THEN Err("library", 0, "Failed to encrypt message")
    ELSE [ok |-> TRUE,
          output |-> encrypt_to_keys(data, recipients_of(h.public_keys))]

\* what decrypt may be given: text, an armored message, binary messages
\* with the leading bytes 85, 84 and 8c, a binary message of two bytes,
\* nothing
Inputs ==
    { << "t", "e", "x", "t" >>, encrypt_to_keys(<< "m" >>, << "A" >>),
      << "85", "m", "m" >>, << "84", "m", "m" >>, << "8c", "m", "m" >>,
      << "85", "m" >>, << >> }

\* lines 448-453: the test decrypt_with_gpg makes, which knows the leading
\* byte 8c too
is_pgp_encrypted_gpg(data) ==
    \/ Len(data) > 0 /\ data[1] = "-----BEGIN PGP MESSAGE-----"
    \/ Len(data) > 2 /\ data[1] \in {"85", "84", "8c"}

\* is_pgp_encrypted, lines 379-391
is_pgp_encrypted(data) ==
    \/ Len(data) > 0 /\ data[1] = "-----BEGIN PGP MESSAGE-----"
    \/ Len(data) > 2 /\ data[1] \in {"85", "84"}

\* what the library makes of a message, and what the gpg command does
LibraryOutcomes == {"content", "fails"}

\* lines 405-426: the message does not parse, it does not decrypt with the
\* secret key, it decrypts but holds no content, or its content is returned
DecryptOutcomes == {"unparsed", "fails", "empty", "content"}

\* lines 459-516: the gpg command is not installed, the temporary file
\* cannot be written, the command cannot be run, it exits with a failure
\* and one of three messages, its output cannot be read, or it is read
GpgOutcomes ==
    {"absent", "unwritten", "not run", "No secret key", "decryption failed",
     "fails", "unread", "content"}

\* the content of a message: of an armored message what was encrypted, of
\* a binary one something that is not the message
content_of(data) ==
    IF Len(data) > 0 /\ data[1] = "-----BEGIN PGP MESSAGE-----"
    THEN data[2].literal
    ELSE << "content" >> \o data

\* the public key a secret key belongs to
public_of(secret_key) ==
    CASE secret_key.key = "X" -> "A"
      [] secret_key.key = "Y" -> "B"
      [] OTHER -> "C"

\* the ciphertext with one byte changed, counted from 0: the armor header
\* "-----BEGIN PGP MESSAGE-----" takes the bytes 0 to 26
header_bytes == 0 .. 26

CorruptedBytes == {0, 10, 26, 27, 100}

Tampers == {<< >>} \cup {<< n >> : n \in CorruptedBytes}

corrupt(data, tamper) ==
    IF tamper = << >> THEN data
    ELSE IF tamper[1] \in header_bytes
    THEN [data EXCEPT ![1] = "-----BEGIN PGP MESS?GE-----"]
    ELSE [data EXCEPT ![2].intact = FALSE]

\* lines 405-419 on a message made by encrypt, with a library that works
\* as documented: a damaged message does not parse; the secret key is used
\* with the empty password (line 415), which opens no protected key; the
\* session key is found if the secret key belongs to a recipient
library_decrypt(secret_key, data) ==
    IF secret_key = NoKey THEN "fails"
    ELSE IF ~data[2].intact THEN "unparsed"
    ELSE IF secret_key.lock # "none" THEN "fails"
    ELSE IF \E i \in 1..Len(data[2].recipients) :
                data[2].recipients[i] = public_of(secret_key)
    THEN "content"
    ELSE "fails"

\* the gpg command does not decrypt a damaged message
gpg_outcomes(data) ==
    IF data[2].intact THEN GpgOutcomes ELSE GpgOutcomes \ {"content"}

\* decrypt_with_gpg, lines 433-523
decrypt_with_gpg(data, gpg) ==
    IF ~is_pgp_encrypted_gpg(data)
    THEN Err("gpg", 0, "Data does not appear to be PGP encrypted")
    ELSE IF gpg = "absent"
    THEN Err("gpg", 0, "GPG is not installed or not in PATH")
    ELSE IF gpg = "unwritten"
    THEN Err("gpg", 0, "Failed to write temporary encrypted file")
    ELSE IF gpg = "not run"
    THEN Err("gpg", 0, "Failed to execute GPG")
    ELSE IF gpg = "No secret key"
    THEN Err("gpg", 0, "No secret key available in GPG keyring for decryption")
    ELSE IF gpg = "decryption failed"
    THEN Err("gpg", 0, "GPG decryption failed - may need passphrase")
    ELSE IF gpg = "fails"
    THEN Err("gpg", 0, "GPG decryption failed")
    ELSE IF gpg = "unread"
    THEN Err("gpg", 0, "Failed to read decrypted file")
    ELSE [ok |-> TRUE, output |-> content_of(data)]

\* a plausible slip: the gpg command is run before the library is tried
PgpDecrypt_gpg_first(h, data, library, gpg) ==
    IF ~is_pgp_encrypted(data)
    THEN [result |-> [ok |-> TRUE, output |-> data],
          library_tried |-> FALSE, gpg_run |-> FALSE]
    ELSE IF decrypt_with_gpg(data, gpg).ok
    THEN [result |-> decrypt_with_gpg(data, gpg),
          library_tried |-> FALSE, gpg_run |-> TRUE]
    ELSE IF h.secret_key # NoKey /\ library = "content"
    THEN [result |-> [ok |-> TRUE, output |-> content_of(data)],
          library_tried |-> TRUE, gpg_run |-> TRUE]
    ELSE [result |-> decrypt_with_gpg(data, gpg),
          library_tried |-> h.secret_key # NoKey, gpg_run |-> TRUE]

\* a plausible slip: decrypt without the test of lines 395-398
PgpDecrypt_unchecked(h, data, library, gpg) ==
    IF h.secret_key # NoKey /\ library = "content"
    THEN [result |-> [ok |-> TRUE, output |-> content_of(data)],
          library_tried |-> TRUE, gpg_run |-> FALSE]
    ELSE [result |-> decrypt_with_gpg(data, gpg),
          library_tried |-> h.secret_key # NoKey,
          gpg_run |-> TRUE]

\* decrypt, lines 393-431: the result, whether the library was asked to
\* decrypt and whether the gpg command was run
PgpDecrypt(h, data, library, gpg) ==
    IF ~is_pgp_encrypted(data)
    THEN [result |-> [ok |-> TRUE, output |-> data],
          library_tried |-> FALSE, gpg_run |-> FALSE]
    ELSE IF h.secret_key # NoKey /\ library = "content"
    THEN [result |-> [ok |-> TRUE, output |-> content_of(data)],
          library_tried |-> TRUE, gpg_run |-> FALSE]
    ELSE [result |-> decrypt_with_gpg(data, gpg),
          library_tried |-> h.secret_key # NoKey,
          gpg_run |-> TRUE]

NoCall == [op |-> "new"]

PgpInit ==
    /\ TransferInit
    /\ rop = RopStart
    /\ sp = Idle /\ dl = Idle /\ http = Idle
    /\ xml = Idle /\ sig = Idle /\ req = Idle
    /\ tmp = Idle /\ psz = Idle /\ stg = Idle
    /\ kh = [ pc           |-> "ready",
              h            |-> PgpNew,
              calls        |-> 0,
              last         |-> NoCall,   \* history: the call examined
              first_secret |-> NoKey ]   \* history: the first key retained

\* the handler may be called
CanLoad == kh.pc = "ready" /\ kh.calls < MaxCalls

CanAsk == kh.pc = "ready"

\* a call that may change the handler returns.  The call and its result
\* are recorded for the call that is examined, after which the handler is
\* left alone
Called(h, call) ==
    /\ \E examined \in BOOLEAN :
          kh' = [ pc           |-> IF examined THEN "examined" ELSE "ready",
                  h            |-> h,
                  calls        |-> kh.calls + 1,
                  last         |-> IF examined THEN call ELSE NoCall,
                  first_secret |-> IF kh.first_secret = NoKey
                                   THEN h.secret_key ELSE kh.first_secret ]
    /\ UNCHANGED << transfer_vars, rop, sp, dl, http, xml, sig, req, tmp, psz, stg >>

\* a call that takes the handler as &self, or not at all, returns
Asked(call) ==
    /\ kh' = [kh EXCEPT !.pc = "examined", !.last = call]
    /\ UNCHANGED << transfer_vars, rop, sp, dl, http, xml, sig, req, tmp, psz, stg >>

\* a loading call returns what the function gave
Loaded(op, data, passphrase, r) ==
    Called(r.h, [op |-> op, data |-> data, passphrase |-> passphrase,
                 before |-> kh.h, result |-> r.result])

LoadPublicKey ==
    /\ CanLoad
    /\ \E data \in KeyData :
          Loaded("load_public_key", data, "None", load_public_key(kh.h, data))

LoadPublicKeysFromBytes ==
    /\ CanLoad
    /\ \E data \in KeyData :
          Loaded("load_public_keys_from_bytes", data, "None",
                 load_public_keys_from_bytes(kh.h, data))

GetAllKeysFromBytes ==
    /\ CanAsk
    /\ \E data \in KeyData :
          Asked([op |-> "get_all_keys_from_bytes", data |-> data,
                 passphrase |-> "None", before |-> kh.h,
                 result |-> get_all_keys_from_bytes(data)])

LoadKeyring ==
    /\ CanLoad
    /\ \E data \in KeyData, passphrase \in Passphrases :
          Loaded("load_keyring", data, passphrase,
                 load_keyring(kh.h, data, passphrase))

LoadSecretKey ==
    /\ CanLoad
    /\ \E data \in KeyData, passphrase \in Passphrases :
          Loaded("load_secret_key", data, passphrase,
                 load_secret_key(kh.h, data, passphrase))

ClearPublicKeys ==
    /\ CanLoad
    /\ Called(clear_public_keys(kh.h),
              [op |-> "clear_public_keys", data |-> << >>,
               passphrase |-> "None", before |-> kh.h, result |-> Ok])

CallEncrypt ==
    /\ CanAsk
    /\ \E library \in LibraryOutcomes :
          Asked([op |-> "encrypt", data |-> << "t" >>,
                 passphrase |-> "None", before |-> kh.h,
                 result |-> PgpEncrypt(kh.h, << "t" >>, library)])

\* decrypt returns on what encrypt gave
RoundTrip(plaintext, tamper, data, library, gpg, r) ==
    /\ kh' = [kh EXCEPT !.last =
                 [op |-> "round_trip", data |-> data,
                  passphrase |-> "None", before |-> kh.h,
                  result |-> r.result,
                  library_tried |-> r.library_tried,
                  gpg_run |-> r.gpg_run,
                  library_ok |-> library = "content",
                  gpg_ok |-> gpg = "content",
                  plaintext |-> plaintext,
                  tamper |-> tamper]]
    /\ UNCHANGED << transfer_vars, rop, sp, dl, http, xml, sig, req, tmp, psz, stg >>

Decrypting(plaintext, tamper, data) ==
    \E gpg \in gpg_outcomes(data) :
       RoundTrip(plaintext, tamper, data, library_decrypt(kh.h.secret_key, data),
                 gpg,
                 PgpDecrypt(kh.h, data,
                            library_decrypt(kh.h.secret_key, data), gpg))

\* the output of encrypt is stored, a byte of it is changed or none, and the
\* same handler decrypts what is stored
CallDecryptStored ==
    /\ kh.pc = "examined"
    /\ kh.last.op = "encrypt"
    /\ kh.last.result.ok
    /\ \E tamper \in Tampers :
          Decrypting(kh.last.data, tamper, corrupt(kh.last.result.output, tamper))

\* decrypt returns; library_ok and gpg_ok record whether the library and
\* the gpg command were able to decrypt the data
Decrypted(data, library, gpg, r) ==
    Asked([op |-> "decrypt", data |-> data,
           passphrase |-> "None", before |-> kh.h,
           result |-> r.result,
           library_tried |-> r.library_tried,
           gpg_run |-> r.gpg_run,
           library_ok |-> library = "content",
           gpg_ok |-> gpg = "content"])

CallDecrypt ==
    /\ CanAsk
    /\ \E data \in Inputs, library \in DecryptOutcomes, gpg \in GpgOutcomes :
          Decrypted(data, library, gpg, PgpDecrypt(kh.h, data, library, gpg))

PgpNext ==
    \/ LoadPublicKey
    \/ LoadPublicKeysFromBytes
    \/ GetAllKeysFromBytes
    \/ LoadKeyring
    \/ LoadSecretKey
    \/ ClearPublicKeys
    \/ CallEncrypt
    \/ CallDecrypt
    \/ CallDecryptStored

PgpSpec == PgpInit /\ [][PgpNext]_vars

\* ================================================================ external tool
\* PgpHandler::decrypt_with_gpg (src/src/crypto.rs, lines 433-523), step by
\* step, with the two temporary files it uses.  The gpg command is the
\* environment: it may be missing, fail to start, exit with a failure or
\* decrypt, and on a failure it may or may not leave an output file.
\* Option<String>: no passphrase stored, an empty one, one of some length
StoredPassphrases == {"None", "", "p"}

NoFile == << "no file" >>

\* what is left at the path of a file whose writing failed: nothing, or the
\* part written so far
Partial(data) == {NoFile, SubSeq(data, 1, Len(data) - 1)}

\* lines 477-493: the arguments of the gpg command
gpg_args(stored_passphrase) ==
    << "--batch", "--yes", "--quiet" >>
    \o (IF stored_passphrase \notin {"None", ""}
        THEN << "--passphrase", stored_passphrase >> ELSE << >>)
    \o << "--decrypt", "--output", "temp_decrypted", "temp_encrypted" >>

\* the exit of the gpg command: its status and what it printed on stderr
GpgExits ==
    { [success |-> TRUE, stderr |-> ""],
      [success |-> FALSE, stderr |-> "No secret key"],
      [success |-> FALSE, stderr |-> "decryption failed"],
      [success |-> FALSE, stderr |-> "other"] }

\* lines 505-511
gpg_error(stderr) ==
    IF stderr = "No secret key"
    THEN Err("gpg", 0, "No secret key available in GPG keyring for decryption")
    ELSE IF stderr = "decryption failed"
    THEN Err("gpg", 0, "GPG decryption failed - may need passphrase")
    ELSE Err("gpg", 0, "GPG decryption failed")

GpgInit ==
    /\ TransferInit
    /\ rop = RopStart
    /\ sp = Idle /\ dl = Idle /\ http = Idle
    /\ xml = Idle /\ sig = Idle /\ req = Idle /\ kh = Idle
    /\ psz = Idle /\ stg = Idle
    /\ \E data \in Inputs, stored_passphrase \in StoredPassphrases :
          tmp = [ pc             |-> "check",
                  encrypted_data |-> data,
                  args           |-> gpg_args(stored_passphrase),
                  temp_encrypted |-> NoFile,
                  temp_decrypted |-> NoFile,
                  output         |-> Idle,
                  result         |-> Idle ]

GpgReturn(files, result) ==
    /\ tmp' = [files EXCEPT !.pc = "returned", !.result = result]
    /\ UNCHANGED << transfer_vars, rop, sp, dl, http, xml, sig, req, kh, psz, stg >>

GpgStep(files, to) ==
    /\ tmp' = [files EXCEPT !.pc = to]
    /\ UNCHANGED << transfer_vars, rop, sp, dl, http, xml, sig, req, kh, psz, stg >>

\* lines 447-456
CheckData ==
    /\ tmp.pc = "check"
    /\ IF is_pgp_encrypted_gpg(tmp.encrypted_data)
       THEN GpgStep(tmp, "version")
       ELSE GpgReturn(tmp, Err("gpg", 0, "Data does not appear to be PGP encrypted"))

\* lines 459-465: gpg --version
CheckGpg ==
    /\ tmp.pc = "version"
    /\ \E installed \in BOOLEAN :
          IF installed THEN GpgStep(tmp, "write")
          ELSE GpgReturn(tmp, Err("gpg", 0, "GPG is not installed or not in PATH"))

\* lines 468-474: std::fs::write(&temp_encrypted, encrypted_data)
WriteEncrypted ==
    /\ tmp.pc = "write"
    /\ \/ GpgStep([tmp EXCEPT !.temp_encrypted = tmp.encrypted_data], "run")
       \/ \E left \in Partial(tmp.encrypted_data) :
             GpgReturn([tmp EXCEPT !.temp_encrypted = left],
                       Err("gpg", 0, "Failed to write temporary encrypted file"))

\* lines 495-496: gpg_cmd.output(): the command cannot be started, or it runs,
\* exits, and leaves an output file or none; an exit with success has
\* written its output
RunGpg ==
    /\ tmp.pc = "run"
    /\ \/ GpgReturn(tmp, Err("gpg", 0, "Failed to execute GPG"))
       \/ \E exit \in GpgExits :
             \E written \in IF exit.success
                            THEN {content_of(tmp.encrypted_data)}
                            ELSE Partial(content_of(tmp.encrypted_data)) :
                GpgStep([tmp EXCEPT !.temp_decrypted = written,
                                    !.output = exit],
                        "remove_encrypted")

\* lines 498-499
RemoveEncrypted ==
    /\ tmp.pc = "remove_encrypted"
    /\ GpgStep([tmp EXCEPT !.temp_encrypted = NoFile], "status")

\* lines 501-512
CheckStatus ==
    /\ tmp.pc = "status"
    /\ IF tmp.output.success THEN GpgStep(tmp, "read")
       ELSE GpgReturn(tmp, gpg_error(tmp.output.stderr))

\* lines 514-522: the output is read, the file is removed and the bytes
\* are returned; or the read fails
ReadDecrypted ==
    /\ tmp.pc = "read"
    /\ \/ GpgReturn(tmp, Err("gpg", 0, "Failed to read decrypted file"))
       \/ GpgReturn([tmp EXCEPT !.temp_decrypted = NoFile],
                    [ok |-> TRUE, output |-> tmp.temp_decrypted])

GpgNext ==
    \/ CheckData
    \/ CheckGpg
    \/ WriteEncrypted
    \/ RunGpg
    \/ RemoveEncrypted
    \/ CheckStatus
    \/ ReadDecrypted

GpgSpec == GpgInit /\ [][GpgNext]_vars


\* ================================================================ part size
\* MultipartUploader::calculate_part_size, MultipartUploader::new and the
\* number of parts of upload_file (src/src/multipart_upload.rs).  File sizes
\* reach 50 * 1024^4 bytes; a number of bytes is written as a number of
\* whole MiB and a number of bytes below one MiB, and the arithmetic of the
\* source is done on the two
MiB == 1024 * 1024

ByteCount(mib, b) == [mib |-> mib, b |-> b]

\* the number of bytes x + d, for a small d
plus(x, d) ==
    IF x.b + d < 0 THEN ByteCount(x.mib - 1, x.b + d + MiB)
    ELSE IF x.b + d >= MiB THEN ByteCount(x.mib + 1, x.b + d - MiB)
    ELSE ByteCount(x.mib, x.b + d)

at_most(x, y) == x.mib < y.mib \/ (x.mib = y.mib /\ x.b <= y.b)

\* usize::max, usize::min
max_of(x, y) == IF at_most(x, y) THEN y ELSE x

min_of(x, y) == IF at_most(x, y) THEN x ELSE y

\* file_size / 1000
div_1000(x) ==
    ByteCount(x.mib \div 1000, (((x.mib % 1000) * MiB) + x.b) \div 1000)

\* usize::next_multiple_of(1024 * 1024)
next_multiple_of_MiB(x) == IF x.b = 0 THEN x ELSE ByteCount(x.mib + 1, 0)

\* 5 * 1024 * 1024 and 5 * 1024 * 1024 * 1024
MIN_PART_SIZE == ByteCount(5, 0)

MAX_PART_SIZE == ByteCount(5 * 1024, 0)

\* 5_000_000_000 = 4768 * 1024 * 1024 + 389632
SINGLE_UPLOAD_LIMIT == ByteCount(4768, 389632)

\* a plausible slip: the part size is not held below MAX_PART_SIZE
calculate_part_size_unclamped(file_size) ==
    IF at_most(file_size, SINGLE_UPLOAD_LIMIT) THEN file_size
    ELSE next_multiple_of_MiB(max_of(div_1000(file_size), MIN_PART_SIZE))

\* calculate_part_size, lines 68-84
calculate_part_size(file_size) ==
    IF at_most(file_size, SINGLE_UPLOAD_LIMIT) THEN file_size
    ELSE next_multiple_of_MiB(
             min_of(max_of(div_1000(file_size), MIN_PART_SIZE), MAX_PART_SIZE))

\* MultipartUploader::new, lines 51-65
new_uploader(part_size) ==
    IF ~at_most(MIN_PART_SIZE, part_size)
    THEN Err("part size", 0, "Part size must be at least 5MB")
    ELSE IF ~at_most(part_size, MAX_PART_SIZE)
    THEN Err("part size", 0, "Part size cannot exceed 5GB")
    ELSE [ok |-> TRUE, part_size |-> part_size]

\* upload_file, line 116: ((file_size as f64) / (part_size as f64)).ceil()
\* for a part size that is the file size or a number of whole MiB
total_parts(file_size, part_size) ==
    IF part_size = file_size THEN 1
    ELSE (file_size.mib \div part_size.mib)
         + (IF file_size.mib % part_size.mib = 0 /\ file_size.b = 0
            THEN 0 ELSE 1)

\* the file sizes asked about: those of the test of lines 397-412, the
\* limits of the source and their multiples, and the sizes around them
Landmarks ==
    { ByteCount(0, 1000000), MIN_PART_SIZE, SINGLE_UPLOAD_LIMIT, MAX_PART_SIZE,
      ByteCount(5 * 1000, 0), ByteCount(500 * 1024, 0), ByteCount(5 * 1024 * 1000, 0),
      ByteCount(5 * 1024 * MAX_PARTS, 0), ByteCount(50 * 1024 * 1024, 0) }

FileSizes ==
    {ByteCount(0, 0)}
    \cup {plus(x, d) : x \in Landmarks, d \in (0 - MaxOffset) .. MaxOffset}

PartInit ==
    /\ TransferInit
    /\ rop = RopStart
    /\ sp = Idle /\ dl = Idle /\ http = Idle
    /\ xml = Idle /\ sig = Idle /\ req = Idle /\ kh = Idle
    /\ tmp = Idle /\ stg = Idle
    /\ \E file_size \in FileSizes :
          psz = [ pc |-> "start", file_size |-> file_size,
                  part_size |-> Idle, uploader |-> Idle, total_parts |-> 0 ]

CalculatePartSize ==
    /\ psz.pc = "start"
    /\ psz' = [psz EXCEPT !.pc = "calculated",
                          !.part_size = calculate_part_size(psz.file_size)]
    /\ UNCHANGED << transfer_vars, rop, sp, dl, http, xml, sig, req, kh, tmp, stg >>

\* an uploader is made for the part size calculated
NewUploader ==
    /\ psz.pc = "calculated"
    /\ psz' = [psz EXCEPT !.pc = "made",
                          !.uploader = new_uploader(psz.part_size)]
    /\ UNCHANGED << transfer_vars, rop, sp, dl, http, xml, sig, req, kh, tmp, stg >>

\* upload_file counts the parts of the file
CountParts ==
    /\ psz.pc = "made"
    /\ psz.uploader.ok
    /\ psz' = [psz EXCEPT !.pc = "counted",
                          !.total_parts =
                              total_parts(psz.file_size, psz.uploader.part_size)]
    /\ UNCHANGED << transfer_vars, rop, sp, dl, http, xml, sig, req, kh, tmp, stg >>

PartNext ==
    \/ CalculatePartSize
    \/ NewUploader
    \/ CountParts

PartSpec == PartInit /\ [][PartNext]_vars


\* ================================================================ staging paths
\* LargeFileHandler::create_new_session (src/src/large_file_handler.rs, lines
\* 424-446) for two transfers.  A source path is the sequence of its
\* components
SourcePaths ==
    { << "a.bin" >>, << "d1", "a.bin" >>, << "d2", "a.bin" >>,
      << "d1", "b.bin" >>, << "d1", ".." >> }

TargetKeys == {"x", "y", "z"}

Transfers == [file_path : SourcePaths, r2_key : TargetKeys]

\* Path::file_name: the last component, None when the path ends in ".."
file_name(path) ==
    IF path[Len(path)] = ".." THEN "None" ELSE path[Len(path)]

\* self.temp_dir.join(format!("{}.pgp", file_name))
encrypted_file_of(path) == << "temp_dir", << file_name(path), ".pgp" >> >>

\* create_new_session: the fields of the session that depend on the call
session_of(t) ==
    IF file_name(t.file_path) = "None"
    THEN Err("path", 0, "Invalid file path")
    ELSE [ok |-> TRUE,
          original_file  |-> t.file_path,
          encrypted_file |-> encrypted_file_of(t.file_path),
          r2_key         |-> t.r2_key]

StagingInit ==
    /\ TransferInit
    /\ rop = RopStart
    /\ sp = Idle /\ dl = Idle /\ http = Idle
    /\ xml = Idle /\ sig = Idle /\ req = Idle /\ kh = Idle
    /\ tmp = Idle /\ psz = Idle
    /\ \E first \in Transfers, second \in Transfers :
          stg = [ pc |-> "start", first |-> first, second |-> second,
                  sessions |-> << >> ]

\* the first transfer is started
CreateFirst ==
    /\ stg.pc = "start"
    /\ stg' = [stg EXCEPT !.pc = "one",
                          !.sessions = << session_of(stg.first) >>]
    /\ UNCHANGED << transfer_vars, rop, sp, dl, http, xml, sig, req, kh, tmp, psz >>

\* the second transfer is started while the first is under way
CreateSecond ==
    /\ stg.pc = "one"
    /\ stg' = [stg EXCEPT !.pc = "both",
                          !.sessions = Append(@, session_of(stg.second))]
    /\ UNCHANGED << transfer_vars, rop, sp, dl, http, xml, sig, req, kh, tmp, psz >>

StagingNext ==
    \/ CreateFirst
    \/ CreateSecond

StagingSpec == StagingInit /\ [][StagingNext]_vars


\* ================================================================ start
Init ==
    /\ TransferInit
    /\ xml = Idle /\ sig = Idle /\ req = Idle /\ kh = Idle
    /\ tmp = Idle /\ psz = Idle /\ stg = Idle
    /\ rop = RopStart
    /\ sp = Idle
    /\ dl = Idle
    /\ http = Idle

RetrySpec == Init /\ [][RetryNext]_vars

\* ================================================================ transfer
Next ==
    \/ \E f \in Files : Invoke(f)
    \/ EncryptCreate
    \/ EncryptWrite
    \/ RecordEncryption
    \/ Verify
    \/ UploadStart
    \/ InitiateAttempt
    \/ SaveUploadId
    \/ OpenFile
    \/ ReadChunk
    \/ UploadPartAttempt
    \/ RecordPart
    \/ CompleteAttempt
    \/ RemoveStaged
    \/ RemoveSession
    \/ Crash
    \/ \E p \in Files : TamperModify(p)
    \/ \E p \in Files : TamperTruncate(p)
    \/ \E p \in Files : TamperDelete(p)

Spec == Init /\ [][Next]_vars

TypeOK ==
    /\ pc \in {"idle", "encrypt", "encrypt_write", "record_encryption",
                "verify", "upload", "initiate", "save_upload_id", "open",
                "loop", "upload_part", "record_part", "complete", "cleanup",
                "cleanup_session", "done", "failed"}
    /\ file_path \in Files
    /\ retry_count \in 0..MAX_RETRIES
    /\ dirty \subseteq Files
    /\ available_space \in DiskSpaces \cup {0}
    /\ after_part_failure \in BOOLEAN

\* ================================================================ properties
RECURSIVE Chunks(_, _)
\* the bytes of a file cut into consecutive pieces of c bytes, the last one
\* possibly shorter
Chunks(bytes, c) ==
    IF bytes = <<>> THEN <<>>
    ELSE IF Len(bytes) <= c THEN <<bytes>>
    ELSE <<SubSeq(bytes, 1, c)>> \o Chunks(SubSeq(bytes, c + 1, Len(bytes)), c)

\* what a run that uploads a whole file in one go hands to the completion
\* call: number, size and checksum of every piece
ExpectedParts(bytes, c) ==
    [i \in 1..Len(Chunks(bytes, c)) |->
        [ part_number |-> i,
          size        |-> Len(Chunks(bytes, c)[i]),
          checksum    |-> Sha256(Chunks(bytes, c)[i]) ]]

PartView(parts) ==
    [i \in 1..Len(parts) |->
        [ part_number |-> parts[i].part_number,
          size        |-> parts[i].size,
          checksum    |-> parts[i].checksum ]]

RECURSIVE SumSizes(_)
SumSizes(parts) ==
    IF parts = <<>> THEN 0
    ELSE parts[1].size + SumSizes(Tail(parts))

IsPartCall(c) == c[1] = "part"

\* the part numbers for which this invocation issued an upload-part call
PartCalls == [i \in 1..Len(SelectSeq(calls, IsPartCall)) |->
                 SelectSeq(calls, IsPartCall)[i][2]]

Contiguous(parts) == \A i \in 1..Len(parts) : parts[i].part_number = i

\* every part of the list is stored under the upload on the remote side
Acked(s) ==
    \A i \in 1..Len(s.completed_parts) :
        /\ s.upload_id \in DOMAIN remote_parts
        /\ s.completed_parts[i].part_number \in DOMAIN remote_parts[s.upload_id]
        /\ Sha256(remote_parts[s.upload_id][s.completed_parts[i].part_number])
             = s.completed_parts[i].checksum

\* nobody but the engine touched the staged file of the running invocation
Clean == Running /\ session.encrypted_file \notin dirty

GateErrors == {"Encrypted file missing. Please restart upload.",
               "Encrypted file has been modified. Please restart upload."}

\* the staged file a session refers to is gone or differs from the checksum
\* the session records
Stale(s) ==
    \/ staged[s.encrypted_file] = Missing
    \/ Sha256(staged[s.encrypted_file]) # s.encryption_checksum

\* C1 (resume idempotence): an invocation that loaded a session with N parts
\* and whose staged file nobody modified issues upload-part calls for N+1,
\* N+2, ... in this order and nothing else, up to M when it reaches the
\* completion call; and the list handed to the completion call, by a resumed
\* run as by an uninterrupted one, is the list of the M pieces of the staged
\* file (numbers, sizes, checksums).
C1_ResumeIdempotence ==
    /\ (Clean /\ pc = "complete") =>
          PartView(session.completed_parts)
            = ExpectedParts(staged[session.encrypted_file], CHUNK_SIZE)
    /\ (Clean /\ resumed) =>
          /\ \A i \in 1..Len(PartCalls) : PartCalls[i] = start_parts + i
          /\ pc = "complete" =>
                start_parts + Len(PartCalls) = Len(session.completed_parts)

C1_Witness ==
    /\ Clean /\ resumed /\ pc = "complete"
    /\ start_parts >= 1
    /\ Len(session.completed_parts) > start_parts

\* C2 (checksum gate): when the loaded session is marked encrypted and the
\* staged file is missing or no longer has the recorded checksum, the
\* invocation has issued no network call and its next step returns one of
\* the two gate errors, leaving the remote side untouched.
C2_ChecksumGate ==
    [][ (pc = "verify" /\ Stale(session) /\ pc' # pc /\ pc' # "idle") =>
          /\ calls = <<>>
          /\ pc' = "failed"
          /\ error' \in GateErrors
          /\ calls' = <<>>
          /\ UNCHANGED remote_vars ]_vars

C2_Witness ==
    /\ pc = "failed"
    /\ error = "Encrypted file has been modified. Please restart upload."
    /\ disk # NoSession /\ disk.encryption_complete
    /\ calls = <<>>

\* C3 (stale session discarded): after an invocation has rejected its
\* session at the gate, the session record is no longer on disk.
C3_StaleSessionDiscarded ==
    (pc = "failed" /\ error \in GateErrors) => disk = NoSession

\* C4 (size match): a session loaded from disk is used by an invocation only
\* if its recorded total size is the size of the source file given to this
\* invocation.
C4_SizeMatchRequired ==
    (Running /\ resumed) => session.total_size = PlainLen(file_path)

\* C5 (part numbering): in memory and on disk the i-th completed part has
\* number i, every recorded part is stored on the remote side under the
\* session's upload, and the part being uploaded or recorded is number
\* completed_parts.len() + 1.
C5_PartsContiguous ==
    /\ disk # NoSession =>
         /\ Contiguous(disk.completed_parts)
         /\ Acked(disk)
    /\ Running =>
         /\ Contiguous(session.completed_parts)
         /\ Acked(session)
         /\ pc \in {"upload_part", "record_part"} =>
              chunk_num = Len(session.completed_parts) + 1

C5_Witness ==
    /\ pc = "upload_part"
    /\ resumed
    /\ Len(session.completed_parts) >= 1
    /\ disk # NoSession /\ Len(disk.completed_parts) >= 1

C7_SequentialParts ==
    /\ pc = "upload_part" =>
         /\ Len(session.completed_parts) = chunk_num - 1
         /\ disk # NoSession
         /\ disk.completed_parts = session.completed_parts
         /\ \A k \in 1..(chunk_num - 1) :
              /\ session.completed_parts[k].part_number = k
              /\ k \in DOMAIN remote_parts[session.upload_id]
    /\ \A i \in 1..(Len(PartCalls) - 1) : PartCalls[i + 1] = PartCalls[i] + 1

C7_Witness ==
    /\ pc = "upload_part"
    /\ chunk_num >= 2
    /\ retry_count >= 1
    /\ Len(PartCalls) >= 2

\* C8 (completion): when the completion call is issued, the list it gets
\* has part number i at position i, every part is acknowledged, every part
\* but the last has chunk_size bytes, no part is empty, and the sizes sum to
\* the recorded total size, which is the size of the staged file unless
\* somebody else modified it.
C8_CompletionList ==
    pc = "complete" =>
        /\ Contiguous(session.completed_parts)
        /\ Acked(session)
        /\ \A i \in 1..Len(session.completed_parts) :
             /\ session.completed_parts[i].size > 0
             /\ i < Len(session.completed_parts) =>
                  session.completed_parts[i].size = session.chunk_size
             /\ session.completed_parts[i].size <= session.chunk_size
        /\ SumSizes(session.completed_parts) = session.total_size
        /\ Clean => session.total_size = Len(staged[session.encrypted_file])

\* the completion of a file whose last chunk is short
C8_Witness ==
    /\ pc = "complete"
    /\ Len(session.completed_parts) >= 2
    /\ session.completed_parts[Len(session.completed_parts)].size
         < session.chunk_size

\* C9 (clean-up only after completion): the engine removes the staged file
\* and the session record only in the clean-up that follows a successful
\* completion call, and a step in which initiate, an upload-part or the
\* completion call gives up leaves the session record and the staged file
\* as they are, on disk.
C9_CleanupAfterCompletion ==
    [][ /\ (tampers' = tampers /\
            \E p \in Files : staged[p] # Missing /\ staged'[p] = Missing) =>
              (pc = "cleanup" /\ session.upload_id \in remote_done)
        /\ (disk # NoSession /\ disk' = NoSession) =>
              (pc = "cleanup_session" /\ session.upload_id \in remote_done)
        /\ (pc \in {"initiate", "upload_part", "complete"} /\ pc' = "failed") =>
              /\ disk' = disk /\ disk # NoSession
              /\ staged' = staged
              /\ Clean => staged[session.encrypted_file] # Missing ]_vars

\* an upload-part call has exhausted its retries; both files are on disk
C9_Witness ==
    /\ pc = "failed"
    /\ error = "UploadPart failed"
    /\ disk # NoSession
    /\ staged[disk.encrypted_file] # Missing

\* C10 (survival of restarts): whenever no invocation is running and nobody
\* else modified a staged file, a persisted session still passes the gate
\* of the next invocation, so the transfer can be taken up again.
C10_NoDeadEnd ==
    (~Running /\ dirty = {} /\ disk # NoSession) => ~Stale(disk)

\* outside the clean-up itself, a persisted session whose staged file is
\* gone stays on disk and stays stale: no later step repairs or discards it,
\* and no invocation returns success
DeadEndIsFinal ==
    [][ (/\ disk # NoSession /\ staged[disk.encrypted_file] = Missing
         /\ pc # "cleanup_session")
          => /\ disk' # NoSession
             /\ disk'.encrypted_file = disk.encrypted_file
             /\ staged'[disk.encrypted_file] = Missing
             /\ pc' \notin {"cleanup_session", "done"} ]_vars

\* ---------------------------------------------------------------- retry
\* C11 (retry ceiling): retry_operation never invokes the operation more
\* often than the configured maximum (10), returns the error of the last
\* invocation when it gives up, and returns the value of the first
\* successful invocation without invoking the operation again.
C11_AttemptCeiling ==
    /\ rop.invoked <= MAX_RETRIES
    /\ rop.returned = "err" => rop.value = rop.last_error
    /\ rop.returned = "ok" => rop.value = OpValue /\ rop.pc = "returned"

\* the part of C11 that the code keeps: the error returned is the one of
\* the last invocation, and a success ends the loop with its value
LastErrorReturned ==
    /\ rop.returned = "err" =>
          rop.value = rop.last_error /\ rop.last_error = rop.invoked
    /\ rop.returned = "ok" => rop.value = OpValue /\ rop.pc = "returned"
    /\ rop.pc = "returned" <=> rop.returned # ""

\* C12 (backoff bound): the first wait is the initial delay; every later
\* wait is the previous wait times the exponential base, capped at the
\* maximum delay, plus a jitter of at most 10%; no wait is longer than the
\* maximum delay plus 10% of it.
C12_BackoffBound ==
    /\ rop.waits = 1 => rop.wait = INITIAL_RETRY_DELAY
    /\ rop.waits >= 2 =>
          LET capped == Min(rop.prev_wait * EXPONENTIAL_BASE, MAX_RETRY_DELAY)
          IN capped <= rop.wait /\ rop.wait <= capped + capped \div 10
    /\ rop.wait <= MAX_RETRY_DELAY + MAX_RETRY_DELAY \div 10

\* the wait before the last invocation is a capped delay with its jitter
C12_Witness ==
    /\ rop.waits = MAX_RETRIES
    /\ rop.wait > MAX_RETRY_DELAY
    /\ rop.prev_wait > MAX_RETRY_DELAY

\* ---------------------------------------------------------------- units
\* the place of a network unit in the order initiate, part 1, part 2, ...,
\* complete
UnitRank(c) ==
    IF c[1] = "initiate" THEN 0
    ELSE IF c[1] = "part" THEN c[2]
    ELSE MaxPlainLen + 2

\* C13 (independent retry units): the units of one invocation are invoked
\* in the order initiate, parts, complete and none is taken up again once a
\* later one was invoked, so that a retry re-invokes the failed unit only;
\* initiate is only invoked for a session without upload identifier, and a
\* part only if the session does not record it.
C13_IndependentUnits ==
    /\ \A i, j \in 1..Len(calls) :
          i < j => UnitRank(calls[i]) < UnitRank(calls[j])
    /\ pc = "initiate" =>
          /\ session.upload_id = 0
          /\ disk # NoSession => disk.upload_id = 0
    /\ pc = "upload_part" =>
          /\ session.upload_id # 0
          /\ chunk_num = Len(session.completed_parts) + 1
    /\ \A i \in 1..Len(calls) :
          calls[i][1] = "part" => calls[i][2] > start_parts

\* the second part is at its last retry, after initiate and the first part
C13_Witness ==
    /\ pc = "upload_part"
    /\ retry_count = MAX_RETRIES
    /\ calls = << <<"initiate", 0>>, <<"part", 1>>, <<"part", 2>> >>

\* C14 (exhausted part): when the upload of part k has used up its retries,
\* the invocation returns that error and leaves on disk the session it had
\* in memory, with the upload identifier and exactly the parts 1..k-1, and
\* the staged file untouched; the first network call of the next invocation
\* is the upload of part k.
C14_ExhaustedPart ==
    [][ /\ (pc = "upload_part" /\ pc' = "failed") =>
              /\ error' = "UploadPart failed"
              /\ disk' = disk /\ disk = session
              /\ disk.upload_id # 0
              /\ Len(disk.completed_parts) = chunk_num - 1
              /\ \A i \in 1..Len(disk.completed_parts) :
                    disk.completed_parts[i].part_number = i
              /\ staged' = staged
              /\ Clean => ~Stale(disk)
        /\ (Running /\ after_part_failure /\ calls = <<>> /\ calls' # <<>>) =>
              calls' = << <<"part", Len(disk.completed_parts) + 1>> >> ]_vars

\* the invocation after one that gave up on part k >= 2 has issued its
\* first call, the upload of part k
C14_Witness ==
    /\ Running
    /\ after_part_failure
    /\ start_parts >= 1
    /\ calls = << <<"part", start_parts + 1>> >>

\* C15 (encrypt before persist): a session on disk with encryption_complete
\* set always has its completely written staged file next to it, with the
\* recorded size and checksum: no crash leaves the flag on disk with a
\* partial or absent staged file (nobody else having modified the files).
C15_FlagImpliesStaged ==
    (pc = "idle" /\ dirty = {} /\ disk # NoSession /\ disk.encryption_complete)
       => /\ staged[disk.encrypted_file] # Missing
          /\ Len(staged[disk.encrypted_file]) = disk.total_size
          /\ calculate_file_checksum(staged[disk.encrypted_file])
                = disk.encryption_checksum

\* the part of C15 that the code keeps: the flag reaches the disk only
\* after the staged file was written, together with its size and checksum
FlagSavedAfterStaging ==
    [][ (pc = "record_encryption" /\ disk' # disk) =>
           LET f == session.encrypted_file
           IN /\ disk'.encryption_complete
              /\ staged[f] # Missing
              /\ disk'.total_size = Len(staged[f])
              /\ disk'.encryption_checksum = Sha256(staged[f])
              /\ f \notin dirty =>
                    staged[f] = encrypt(Content(session.original_file),
                                        fresh_nonce) ]_vars

\* ---------------------------------------------------------------- guards
NotImplemented ==
    "Chunked encryption for files >100GB not yet implemented. Please split your file."

\* a step of the running invocation that leaves the disk, the remote side
\* and the memory as if no encryption had been tried
NothingDone ==
    /\ pc' = "failed"
    /\ buffer' = <<>>
    /\ retry_count' = 0
    /\ calls' = <<>>
    /\ UNCHANGED << disk, staged, remote_parts, remote_done >>

\* C16 (disk space): before encrypting, the free disk space is compared
\* with the source size plus 10%; when it is smaller the invocation fails
\* at once with the disk-space error: no plaintext is read, no staging
\* file created, no session persisted, nothing retried or uploaded.
C16_DiskSpaceCheck ==
    [][ (/\ pc = "encrypt" /\ pc' \notin {"encrypt", "idle"}
         /\ available_space < PlainLen(file_path) + PlainLen(file_path) \div 10)
           => /\ error' = "Insufficient disk space"
              /\ NothingDone ]_vars

\* the largest source was refused for the overhead alone
C16_Witness ==
    /\ pc = "failed"
    /\ error = "Insufficient disk space"
    /\ file_path = "huge.bin"
    /\ disk = NoSession
    /\ staged["huge.bin"] = Missing

C18_DistinctPaths ==
    (sp.pc = "paths" /\ sp.key1 # sp.key2) => sp.path1 # sp.path2

\* ---------------------------------------------------------------- download
\* C19 (resumable download): behind a partial local file only the bytes
\* from its length to the end of the object are requested, and when the
\* download returns the local file holds exactly the bytes of the remote
\* object, whatever it held before.
C19_DownloadExact ==
    /\ \A i \in 1..Len(dl.requests) : dl.requests[i][1] >= dl.start_offset
    /\ dl.pc = "done" => dl.local = dl.object

\* the part of C19 that the code keeps: the requests are the consecutive
\* ranges from the length of a shorter local file to the end of the object,
\* and the local file ends up at least as long as the object
RequestsFromOffset ==
    dl.pc = "done" =>
       /\ \A i \in 1..Len(dl.requests) :
             dl.requests[i][1] =
                IF i = 1 THEN dl.start_offset ELSE dl.requests[i - 1][2] + 1
       /\ dl.requests # <<>> =>
             dl.requests[Len(dl.requests)][2] = Len(dl.object) - 1
       /\ Len(dl.local) >= Len(dl.object)

\* ---------------------------------------------------------------- store client
Answered == http.pc = "done" /\ http.response # NoResponse

\* C20 as stated (status mapping): download, upload and list succeed
\* exactly when the status is 2xx and otherwise return an error with the
\* status code and the response body; delete succeeds exactly when the
\* status is 2xx or 404.
C20_StatusExact ==
    Answered =>
       LET r == http.response
           o == http.outcome
       IN /\ http.op \in {"download", "upload", "list"} =>
                /\ o.ok <=> is_success(r.status)
                /\ ~o.ok => o = Err("status", r.status, r.body)
          /\ http.op = "delete" =>
                (o.ok <=> (is_success(r.status) \/ r.status = 404))

\* C20 (status mapping), amended: upload succeeds exactly when the status
\* is 2xx and delete exactly when it is 2xx or 404; download and list
\* succeed exactly when the status is 2xx and the body can be read (and,
\* for list, parsed); a status that is not accepted gives an error with
\* the status code and the body text (empty when the body is unreadable).
C20_StatusMapping ==
    Answered =>
       LET r == http.response
           o == http.outcome
           accepted == \/ 200 <= r.status /\ r.status <= 299
                       \/ http.op = "delete" /\ r.status = 404
       IN /\ http.op \in {"upload", "delete"} => (o.ok <=> accepted)
          /\ http.op = "download" => (o.ok <=> (accepted /\ r.readable))
          /\ http.op = "list" =>
                (o.ok <=> (accepted /\ r.readable /\ r.wellformed))
          /\ ~accepted =>
                o = Err("status", r.status, IF r.readable THEN r.body ELSE "")
          /\ (~o.ok /\ accepted) => o.kind \in {"body", "xml"}

\* the deletion of an object that does not exist has succeeded
C20_Witness ==
    /\ Answered
    /\ http.op = "delete"
    /\ http.response.status = 404
    /\ http.outcome.ok

\* ---------------------------------------------------------------- C21
\* the text of a <Key> element: its text nodes and CDATA sections, in
\* order, entity references replaced, comments left out
RECURSIVE key_text(_)
key_text(content) ==
    IF content = <<>> THEN <<>>
    ELSE LET piece == Head(content)
         IN (IF piece.type = "Text" THEN unescape(piece.raw)
             ELSE IF piece.type = "CData" THEN piece.raw
             ELSE <<>>) \o key_text(Tail(content))

\* C21: a listing that succeeds returns exactly the text of every <Key>
\* element of the response, one entry per element, in document order
C21_ListExact ==
    (xml.pc = "done" /\ xml.outcome.ok) =>
        xml.objects = [i \in 1..Len(xml.elements) |-> key_text(xml.elements[i])]

\* where every <Key> element holds one text node the listing is exact
PlainKeys ==
    \A i \in 1..Len(xml.elements) :
        Len(xml.elements[i]) = 1 /\ xml.elements[i][1].type = "Text"

ListExactOnPlainKeys == (xml.pc = "loop" \/ PlainKeys) => C21_ListExact

\* two plain keys are listed, the second holding an entity reference
ListedTwoPlainKeys ==
    /\ xml.pc = "done" /\ xml.outcome.ok /\ PlainKeys
    /\ xml.objects = << <<"a">>, <<"a", "&", "b">> >>

\* ---------------------------------------------------------------- C22
\* what the claim varies: secret key, method, path, query, payload, timestamp
sign_components(in) ==
    << in.secret_access_key, in.method, path_only(in.path),
       query_string(in.path), in.payload, in.datetime >>

\* the same, with the timestamp as sign_request writes it: to the second
sign_components_to_second(in) ==
    << in.secret_access_key, in.method, path_only(in.path),
       query_string(in.path), in.payload, date_str(in.datetime) >>

differ_in_one(c1, c2) ==
    Cardinality({i \in 1..Len(c1) : c1[i] # c2[i]}) = 1

\* C22 as stated: equal inputs give the same authorization header, and two
\* requests that differ in exactly one of secret key, method, path, query,
\* payload and timestamp get different signatures
C22_SigningAsStated ==
    sig.pc = "signed" =>
       /\ sig.in1 = sig.in2 => sig.authorization1 = sig.authorization2
       /\ differ_in_one(sign_components(sig.in1), sign_components(sig.in2))
              => sig.signature1 # sig.signature2

\* C22, amended: the timestamp counts to the whole second.  Requests equal
\* in secret key, method, path, query, payload and second get the same
\* authorization header; requests that differ in exactly one of them get
\* different signatures
C22_SigningToSecond ==
    sig.pc = "signed" =>
       /\ sign_components_to_second(sig.in1) = sign_components_to_second(sig.in2)
              => sig.authorization1 = sig.authorization2
       /\ differ_in_one(sign_components_to_second(sig.in1),
                        sign_components_to_second(sig.in2))
              => sig.signature1 # sig.signature2

\* two requests that differ in the query string only are signed differently
C22_Witness ==
    /\ sig.pc = "signed"
    /\ query_string(sig.in1.path) # query_string(sig.in2.path)
    /\ differ_in_one(sign_components_to_second(sig.in1),
                     sign_components_to_second(sig.in2))
    /\ sig.signature1 # sig.signature2

\* two requests within one second carry the same signature
SameSecondSameSignature ==
    /\ sig.pc = "signed"
    /\ sig.in1.datetime # sig.in2.datetime
    /\ sig.signature1 = sig.signature2

\* ---------------------------------------------------------------- C23
slashes(s) == Cardinality({i \in 1..Len(s) : s[i] = "/"})

\* the byte a percent triple stands for
unpercent(triple) == CHOOSE c \in KeyBytes \ {"a", ".", "~"} : percent(c) = triple

RECURSIVE percent_decode(_)
percent_decode(s) ==
    IF s = <<>> THEN <<>>
    ELSE IF Head(s) = "%"
         THEN << unpercent(SubSeq(s, 1, 3)) >>
                 \o percent_decode(SubSeq(s, 4, Len(s)))
         ELSE << Head(s) >> \o percent_decode(Tail(s))

\* the segments of the encoded key decode to the segments of the key
SegmentwiseEncoded(key, encoded) ==
    /\ Len(split(encoded)) = Len(split(key))
    /\ \A i \in 1..Len(split(key)) :
          /\ percent_decode(split(encoded)[i]) = split(key)[i]
          /\ \A j \in 1..Len(split(encoded)[i]) :
                split(encoded)[i][j] \in
                    {"a", "-", "_", ".", "~", "%", "0", "2", "3", "5", "9",
                     "A", "C", "F"}

\* the part of the request URL after the endpoint and the bucket
url_key(url) == SubSeq(url, Len(endpoint) + Len(bucket_name) + 3, Len(url))

\* C23: the key is encoded segment by segment (only unreserved characters
\* stay literal), the encoded key has as many slashes as the key, and the
\* path of the request URL is the path in the canonical request signed
C23_SegmentEncoding ==
    req.pc = "built" =>
       /\ SegmentwiseEncoded(req.key, url_key(req.url))
       /\ slashes(url_key(req.url)) = slashes(req.key)
       /\ req.url = endpoint \o req.signed_path
       /\ SubSeq(req.canonical_request, 3, 2 + Len(req.signed_path) + 2)
             = req.signed_path \o << "\n", "\n" >>

\* a key with a folder and a question mark
C23_Witness ==
    /\ req.pc = "built"
    /\ req.key = << "a", "/", "?" >>
    /\ url_key(req.url) = << "a", "/", "%", "3", "F" >>
    /\ req.signed_path = << "/", "b" , "/", "a", "/", "%", "3", "F" >>

\* ---------------------------------------------------------------- C24
count_fingerprint(key_info, key) ==
    Cardinality({k \in 1..Len(key_info) :
                    key_info[k].fingerprint = fingerprint(key)})

\* the key data holds two copies of the public key
two_copies(data, key) ==
    Cardinality({i \in 1..Len(data) : data[i] = PubBlock(key, "ok", TRUE)}) = 2

\* every block of the key data has its END line
all_closed(data) == \A i \in 1..Len(data) : data[i].closed

examined_call(ops) == kh.pc = "examined" /\ kh.last.op \in ops

\* the call added one entry for the key and returned one KeyInfo for it
added_once(key) ==
    /\ kh.last.result.ok
    /\ count_fingerprint(kh.last.result.keys, key) = 1
    /\ kh.last.op # "get_all_keys_from_bytes" =>
          count_fingerprint(kh.h.key_info, key)
             = count_fingerprint(kh.last.before.key_info, key) + 1

KeyringCalls ==
    {"load_public_keys_from_bytes", "load_keyring", "get_all_keys_from_bytes"}

C25_NoDuplicateFingerprints ==
    \A i, j \in 1..Len(kh.h.key_info) :
        i # j => kh.h.key_info[i].fingerprint # kh.h.key_info[j].fingerprint

\* ---------------------------------------------------------------- C26
\* the message was encrypted to every key of the list, in its order
encrypted_to_all(result, public_keys) ==
    /\ result.ok
    /\ result.output[2].recipients = public_keys

no_ciphertext(result) == ~result.ok

\* C26 as stated: without a public key encrypt returns an error and no
\* ciphertext; with one or more the message is encrypted to every key
C26_EncryptAsStated ==
    examined_call({"encrypt"}) =>
       IF kh.h.public_keys = << >>
       THEN no_ciphertext(kh.last.result)
       ELSE encrypted_to_all(kh.last.result, kh.h.public_keys)

\* C26, amended: without a public key encrypt returns the error "No public
\* keys loaded for encryption" and no ciphertext; with one or more, the
\* message is encrypted to every loaded key unless the library fails, and
\* then its error is returned and no ciphertext
C26_EncryptNeedsKey ==
    examined_call({"encrypt"}) =>
       IF kh.h.public_keys = << >>
       THEN /\ no_ciphertext(kh.last.result)
            /\ kh.last.result.text = "No public keys loaded for encryption"
       ELSE \/ encrypted_to_all(kh.last.result, kh.h.public_keys)
            \/ /\ no_ciphertext(kh.last.result)
               /\ kh.last.result.kind = "library"

\* a message is encrypted to the two keys loaded
C26_Witness ==
    /\ examined_call({"encrypt"})
    /\ kh.h.public_keys = << "A", "B" >>
    /\ encrypted_to_all(kh.last.result, << "A", "B" >>)

\* encrypt is refused after calls that left no key: failed loads, or a
\* load and clear_public_keys
RefusedWithoutKeys ==
    /\ examined_call({"encrypt"})
    /\ kh.calls = MaxCalls
    /\ kh.h.public_keys = << >>
    /\ ~kh.last.result.ok

\* the library fails although keys are loaded
LibraryFailsWithKeys ==
    /\ examined_call({"encrypt"})
    /\ kh.h.public_keys # << >>
    /\ ~kh.last.result.ok

\* ---------------------------------------------------------------- C27
\* C27: the secret key retained is the first one that a loading call
\* retained; later private key blocks never replace it
C27_FirstSecretWins ==
    kh.first_secret # NoKey => kh.h.secret_key = kh.first_secret

\* within one keyring the first private block that parses is retained
FirstOfKeyring ==
    ( /\ examined_call({"load_keyring"})
      /\ kh.last.result.ok /\ kh.last.result.private_key_loaded )
    => kh.h.secret_key = first_private(kh.last.data, 1)

\* a keyring with the private keys Y and X leaves Y
KeptFirstOfKeyring ==
    /\ examined_call({"load_keyring"})
    /\ kh.last.data = << PrivBlock("Y", "ok", "p"), PrivBlock("X", "ok", "none") >>
    /\ kh.h.secret_key.key = "Y"

\* ---------------------------------------------------------------- C28
\* C28: load_keyring with a passphrase retains a private key block, and
\* reports a private key loaded, only if the block unlocks with it
C28_RetainedOnlyIfUnlocked ==
    ( /\ examined_call({"load_keyring"})
      /\ kh.last.passphrase # "None"
      /\ kh.last.result.ok /\ kh.last.result.private_key_loaded )
    => unlock(kh.h.secret_key, kh.last.passphrase)

\* load_secret_key does refuse a key that does not unlock
SecretKeyRefusedLocked ==
    ( /\ examined_call({"load_secret_key"})
      /\ kh.last.passphrase # "None"
      /\ kh.last.result.ok )
    => unlock(kh.h.secret_key, kh.last.passphrase)

\* ---------------------------------------------------------------- C29
well_formed(block) == block.body = "ok" /\ block.closed

\* every well-formed public block of the key data is in the handler
public_blocks_loaded ==
    \A i \in 1..Len(kh.last.data) :
        (kh.last.data[i].kind = "public" /\ well_formed(kh.last.data[i]))
            => is_loaded(kh.h.key_info, kh.last.data[i].key)

\* the key data holds nothing to load: no well-formed public block whose
\* key the handler did not hold, and no well-formed private block
nothing_to_load ==
    \A i \in 1..Len(kh.last.data) :
        well_formed(kh.last.data[i]) =>
            /\ kh.last.data[i].kind = "public"
            /\ is_loaded(kh.last.before.key_info, kh.last.data[i].key)

\* C29: a block of a keyring that does not parse is lost alone: every
\* well-formed public block of the keyring is loaded, and load_keyring
\* returns an error only when the keyring holds nothing to load
C29_BadBlockLostAlone ==
    examined_call({"load_keyring"}) =>
       /\ public_blocks_loaded
       /\ ~kh.last.result.ok => nothing_to_load

\* so it is when every block that does not parse has its END line
BadBlockLostAloneIfClosed ==
    (examined_call({"load_keyring"}) /\ all_closed(kh.last.data))
        => /\ public_blocks_loaded
           /\ ~kh.last.result.ok => nothing_to_load

\* a corrupt block with its END line is followed by a key that is loaded
LoadedBehindCorruptBlock ==
    /\ examined_call({"load_keyring"})
    /\ kh.last.data = << PubBlock("C", "corrupt", TRUE), PubBlock("A", "ok", TRUE) >>
    /\ kh.h.public_keys = << "A" >>
    /\ kh.last.result.ok

RecognisedIsDecrypted ==
    /\ examined_call({"decrypt"})
    /\ is_pgp_encrypted(kh.last.data)
    /\ kh.last.library_tried /\ kh.last.gpg_run

\* ---------------------------------------------------------------- C31
\* decrypt was called with data it recognises as encrypted
decrypt_of_recognised ==
    examined_call({"decrypt"}) /\ is_pgp_encrypted(kh.last.data)

\* C31: for input recognised as encrypted, decrypt tries the library first
\* whenever a secret key is loaded and runs the external tool only if that
\* attempt failed or no secret key is loaded; it returns the plaintext only
\* if one of the two succeeded, and an error otherwise
C31_LibraryThenTool ==
    decrypt_of_recognised =>
       LET library_succeeded == kh.last.library_tried /\ kh.last.library_ok
           tool_succeeded == kh.last.gpg_run /\ kh.last.gpg_ok
       IN /\ kh.last.library_tried <=> kh.h.secret_key # NoKey
          /\ kh.last.gpg_run <=> ~library_succeeded
          /\ kh.last.result.ok <=> (library_succeeded \/ tool_succeeded)
          /\ kh.last.result.ok =>
                kh.last.result.output = content_of(kh.last.data)

\* the library failed with a secret key loaded, and the tool decrypted
C31_Witness ==
    /\ decrypt_of_recognised
    /\ kh.h.secret_key # NoKey
    /\ kh.last.library_tried /\ ~kh.last.library_ok
    /\ kh.last.gpg_run /\ kh.last.gpg_ok
    /\ kh.last.result.ok

\* both fail: an error is returned
BothFailIsError ==
    /\ decrypt_of_recognised
    /\ kh.last.library_tried /\ kh.last.gpg_run
    /\ ~kh.last.result.ok

\* ---------------------------------------------------------------- C32
no_temporary_files == tmp.temp_encrypted = NoFile /\ tmp.temp_decrypted = NoFile

\* the exits that come after the ciphertext file was written
after_write ==
    /\ tmp.pc = "returned"
    /\ \/ tmp.result.ok
       \/ tmp.result.text \in
             { "Failed to execute GPG", "Failed to read decrypted file",
               "No secret key available in GPG keyring for decryption",
               "GPG decryption failed - may need passphrase",
               "GPG decryption failed" }

\* C32: once the temporary files may exist, every exit of decrypt_with_gpg
\* (failure to launch the tool, exit of the tool with a failure, failure
\* to read the output, success) leaves neither of them behind
C32_TempFilesRemoved == after_write => no_temporary_files

\* what the source does remove: a return with success leaves no file, and
\* the ciphertext file is gone once the tool has run
TempFilesRemovedOnSuccess ==
    /\ tmp.pc = "returned" /\ tmp.result.ok => no_temporary_files
    /\ tmp.pc = "returned" /\ tmp.output # Idle => tmp.temp_encrypted = NoFile

ReturnedSuccess ==
    tmp.pc = "returned" /\ tmp.result.ok /\ tmp.args[4] = "--passphrase"

\* ---------------------------------------------------------------- C33
\* encrypt gave a ciphertext, a byte of it was changed, decrypt returned
decrypt_of_corrupted ==
    examined_call({"round_trip"}) /\ kh.last.tamper # << >>

\* C33: a ciphertext made by encrypt for two recipients and corrupted at
\* byte 10 makes decrypt return an error; for a corrupted ciphertext
\* decrypt never returns success with bytes other than the plaintext
C33_TamperDetected ==
    decrypt_of_corrupted =>
       /\ ( kh.last.tamper = << 10 >> /\ Len(kh.h.public_keys) = 2 )
             => ~kh.last.result.ok
       /\ kh.last.result.ok => kh.last.result.output = kh.last.plaintext

\* what the source does detect: a change behind the armor header
BodyTamperDetected ==
    ( decrypt_of_corrupted /\ kh.last.tamper[1] \notin header_bytes )
    => ~kh.last.result.ok

BodyTamperRefused ==
    /\ decrypt_of_corrupted
    /\ kh.last.tamper = << 27 >>
    /\ kh.h.secret_key # NoKey
    /\ ~kh.last.result.ok

\* ---------------------------------------------------------------- C34
\* the handler holds the secret key of one of the recipients
holds_matching_key ==
    /\ kh.h.secret_key # NoKey
    /\ \E i \in 1..Len(kh.h.public_keys) :
          kh.h.public_keys[i] = public_of(kh.h.secret_key)

round_trip_exact ==
    kh.last.result.ok /\ kh.last.result.output = kh.last.plaintext

\* C34: decrypt(encrypt(P)) on a handler that holds the secret key of one
\* of the recipients returns exactly P
C34_RoundTrip ==
    ( /\ examined_call({"round_trip"})
      /\ kh.last.tamper = << >>
      /\ holds_matching_key )
    => round_trip_exact

\* what the source does give: the round trip with a secret key that has no
\* passphrase, whatever the gpg command does
RoundTripUnprotected ==
    ( /\ examined_call({"round_trip"})
      /\ kh.last.tamper = << >>
      /\ holds_matching_key
      /\ kh.h.secret_key.lock = "none" )
    => round_trip_exact /\ ~kh.last.gpg_run

RoundTripToTwo ==
    /\ examined_call({"round_trip"})
    /\ kh.last.tamper = << >>
    /\ kh.h.public_keys = << "B", "A" >>
    /\ kh.h.secret_key # NoKey /\ kh.h.secret_key.key = "X"
    /\ round_trip_exact

\* ---------------------------------------------------------------- C35
\* the leading bytes 0x84 to 0x8c
binary_leading_bytes == {"84", "85", "86", "87", "88", "89", "8a", "8b", "8c"}

sent_to_decryption == kh.last.library_tried \/ kh.last.gpg_run

\* C35: every input that starts with the armored header, and every binary
\* input whose leading byte lies in 0x84 to 0x8c, is recognised as
\* encrypted; decrypt's entry check and the external-tool fallback apply
\* the same rule, so that what the fallback accepts is sent to decryption
\* and not returned as it is
C35_SameRecognition ==
    examined_call({"decrypt"}) =>
       /\ ( /\ Len(kh.last.data) > 0
            /\ \/ kh.last.data[1] = "-----BEGIN PGP MESSAGE-----"
               \/ kh.last.data[1] \in binary_leading_bytes )
          => sent_to_decryption
       /\ is_pgp_encrypted_gpg(kh.last.data) => sent_to_decryption

\* what the source does give: the fallback accepts whatever the entry check
\* lets through
EntryCheckIsNarrower ==
    examined_call({"decrypt"}) =>
       ( /\ is_pgp_encrypted(kh.last.data) => is_pgp_encrypted_gpg(kh.last.data)
         /\ is_pgp_encrypted(kh.last.data) <=> sent_to_decryption )

\* ---------------------------------------------------------------- C36
in_part_range(part_size) ==
    at_most(MIN_PART_SIZE, part_size) /\ at_most(part_size, MAX_PART_SIZE)

\* C36: calculate_part_size returns the file size itself for files of at
\* most 5,000,000,000 bytes; for every larger file it returns a part size
\* from MIN_PART_SIZE to MAX_PART_SIZE, and exactly MAX_PART_SIZE for 50 TB
C36_PartSizeRange ==
    psz.pc # "start" =>
       /\ at_most(psz.file_size, SINGLE_UPLOAD_LIMIT)
             => psz.part_size = psz.file_size
       /\ ~at_most(psz.file_size, SINGLE_UPLOAD_LIMIT)
             => in_part_range(psz.part_size)
       /\ at_most(ByteCount(50 * 1024 * 1024, 0), psz.file_size)
             => psz.part_size = MAX_PART_SIZE

\* the part size for 50 TB has been calculated
C36_Witness ==
    /\ psz.pc = "calculated"
    /\ psz.file_size = ByteCount(50 * 1024 * 1024, 0)
    /\ psz.part_size = MAX_PART_SIZE

\* 500 GB is cut into a thousand parts of 512 MiB
PartOf500GB ==
    /\ psz.pc = "counted"
    /\ psz.file_size = ByteCount(500 * 1024, 0)
    /\ psz.part_size = ByteCount(512, 0)
    /\ psz.total_parts = 1000

\* one byte over the limit: the smallest part size
SmallestPart ==
    /\ psz.pc = "calculated"
    /\ psz.file_size = plus(SINGLE_UPLOAD_LIMIT, 1)
    /\ psz.part_size = MIN_PART_SIZE

\* ---------------------------------------------------------------- C40
\* C40: whenever the part size returned lies in the allowed range, it
\* splits the file into at most MAX_PARTS parts
C40_AtMostMaxParts ==
    psz.pc = "counted" => psz.total_parts <= MAX_PARTS

\* what the source does give: at most MAX_PARTS parts up to
\* MAX_PARTS * MAX_PART_SIZE bytes
AtMostMaxPartsBelow ==
    ( /\ psz.pc = "counted"
      /\ at_most(psz.file_size, ByteCount(5 * 1024 * MAX_PARTS, 0)) )
    => psz.total_parts <= MAX_PARTS

SmallFileRefused ==
    psz.pc = "made" /\ ~psz.uploader.ok /\ psz.file_size = ByteCount(0, 1000000)

\* ---------------------------------------------------------------- C37
both_started ==
    /\ stg.pc = "both"
    /\ stg.sessions[1].ok /\ stg.sessions[2].ok

\* C37: two transfers with different target keys never use the same staged
\* encrypted file
C37_StagingPerKey ==
    ( both_started /\ stg.first.r2_key # stg.second.r2_key )
    => stg.sessions[1].encrypted_file # stg.sessions[2].encrypted_file

\* what the source does give: one staged file per source file name,
\* whatever the target keys and the directories of the sources
StagingPerFileName ==
    both_started =>
       ( stg.sessions[1].encrypted_file = stg.sessions[2].encrypted_file
         <=> file_name(stg.first.file_path) = file_name(stg.second.file_path) )

SameNameOtherDirectory ==
    /\ both_started
    /\ stg.first = [file_path |-> << "d1", "a.bin" >>, r2_key |-> "x"]
    /\ stg.second = [file_path |-> << "d2", "a.bin" >>, r2_key |-> "y"]
    /\ stg.sessions[1].encrypted_file = stg.sessions[2].encrypted_file

\* ---------------------------------------------------------------- C38
\* the invocation is about to complete an upload that is complete already
completes_again == pc = "complete" /\ session.upload_id \in remote_done

\* C38: once the completion of an upload identifier has succeeded, no later
\* invocation issues the completion for that upload again
C38_CompletedOnce == ~completes_again

\* what the source does give: parts are not uploaded again for an upload
\* that is complete
NoPartAfterCompletion ==
    pc = "upload_part" => session.upload_id \notin remote_done

\* ---------------------------------------------------------------- C39
\* a loading call returned an error
failed_load(ops) == examined_call(ops) /\ ~kh.last.result.ok

\* C39: a failed load_secret_key and a failed load_keyring leave the public
\* keys, the secret key and the stored passphrase as they were
C39_FailedLoadKeepsState ==
    failed_load({"load_secret_key", "load_keyring"}) => kh.h = kh.last.before

\* what the source does give: the keys are as they were; and without a
\* passphrase in the call the whole handler is
FailedLoadKeepsKeys ==
    failed_load({"load_secret_key", "load_keyring", "load_public_key",
                 "load_public_keys_from_bytes"}) =>
       /\ kh.h.public_keys = kh.last.before.public_keys
       /\ kh.h.key_info = kh.last.before.key_info
       /\ kh.h.secret_key = kh.last.before.secret_key
       /\ kh.last.passphrase = "None" => kh.h = kh.last.before

FailedUnlockStoresPassphrase ==
    /\ failed_load({"load_secret_key"})
    /\ kh.last.result.kind = "unlock"
    /\ kh.last.before.stored_passphrase = "None"
    /\ kh.h.stored_passphrase = "w"

====
